---- MODULE Spec2Model ----
(***************************************************************************)
(* Energy ingestion engine: the dual-write ingestion service (a            *)
(* Current-State upsert and a History insert inside one transaction of a   *)
(* query runner) and the 24-hour window aggregate of the analytics         *)
(* service.                                                                *)
(*                                                                         *)
(* Storage is the PostgreSQL database behind TypeORM: every ingest call    *)
(* runs in its own READ COMMITTED transaction, so its writes stay private  *)
(* (pendStatus, pendHistory) until COMMIT makes all of them visible in one *)
(* step; an upsert takes the row lock of its key until the transaction     *)
(* ends; a storage call may fail at any await.  A failed COMMIT or a       *)
(* failed ROLLBACK leaves nothing of the transaction behind (the session   *)
(* is gone and the server aborts it).                                      *)
(*                                                                         *)
(* Decimals are integers counted in tenths of the last digit their column  *)
(* keeps (DECIMAL(10,4): 1 = 0.00001 kWh, DECIMAL(8,2) and DECIMAL(5,2):   *)
(* 1 = 0.001), so that a request can carry one digit more than the column  *)
(* stores.  Timestamps are milliseconds.                                   *)
(***************************************************************************)
EXTENDS Integers, Sequences, FiniteSets, TLC

\* ------------------------------------------------------------------ bounds

\* ingest calls started in one behaviour
MaxCalls == 2
\* analytics calls started in one behaviour
MaxQueries == 1

\* the request handlers of the HTTP layer that run ingest calls concurrently
Procs == {"h1", "h2"}

\* ------------------------------------------------------------- program data

\* 24 * 60 * 60 * 1000 ms, the length of the analytics window
DayMs == 24 * 60 * 60 * 1000

\* the keys a Current-State table can hold: @IsString() and VARCHAR(50) admit
\* the empty string
DeviceIds == {"", "V-1", "V-2"}

\* the time value of new Date(s) for an s that is no date (NaN), written as -1;
\* the observation timestamps of the model are not negative
NaNTime == -1

\* the clock values read by the analytics calls; the requests carry the
\* observation timestamps 0, 1, 2, DayMs + 1 and DayMs + 2, so that for a clock
\* value there are records one ms before the window, on its start, inside it,
\* on its end and one ms after it
Nows == {DayMs + 1, DayMs + 2}

NoRow == [none |-> TRUE]

MeterDto(id, ac, v, ts) ==
    [meterId |-> id, kwhConsumedAc |-> ac, voltage |-> v, timestamp |-> ts]

VehicleDto(id, soc, dc, temp, ts) ==
    [vehicleId |-> id, soc |-> soc, kwhDeliveredDc |-> dc, batteryTemp |-> temp,
     timestamp |-> ts]

\* request bodies of POST /v1/ingest/meter; mBad has a negative voltage, mB
\* carries one digit more than the columns keep
mA == MeterDto("V-1", 110, 24050, 1)
mB == MeterDto("V-1", 225, 24055, 2)
mC == MeterDto("V-1", 330, 24050, DayMs + 1)
mD == MeterDto("V-1", 440, 24050, DayMs + 2)
mE == MeterDto("V-2", 1000, 23000, 2)
mBad == MeterDto("V-2", 2000, -10, 2)
MeterDtos == {mB, mBad}

\* request bodies of POST /v1/ingest/meter/batch
MeterBatches == {<< >>, <<mB, mBad>>, <<mE, mC, mA, mD>>}

\* request bodies of POST /v1/ingest/vehicle
vZ == VehicleDto("V-1", 80000, 50, 30000, 0)
vA == VehicleDto("V-1", 85500, 100, 32500, 1)
vB == VehicleDto("V-1", 85505, 205, -2505, 2)
vC == VehicleDto("V-1", 90000, 300, 30000, DayMs + 1)
vD == VehicleDto("V-1", 95000, 400, 31000, DayMs + 2)
vE == VehicleDto("V-2", 50000, 1000, 20000, 2)
VehicleDtos == {vB, vD}

\* request bodies of POST /v1/ingest/vehicle/batch
VehicleBatches == {<< >>, <<vB, vE>>, <<vC, vA, vZ>>}

\* request bodies that break one input constraint each: a negative energy, a
\* timestamp that is no date, an empty identifier, a state of charge of 100.01
\* and of -0.01
mNegAc == MeterDto("V-1", -10, 24050, 2)
mNoDate == MeterDto("V-1", 110, 24050, NaNTime)
mNoId == MeterDto("", 110, 24050, 2)
vSocOver == VehicleDto("V-1", 100010, 100, 30000, 2)
vSocUnder == VehicleDto("V-1", -10, 100, 30000, 2)
vNegDc == VehicleDto("V-1", 50000, -10, 30000, 2)
vNoDate == VehicleDto("V-1", 50000, 100, 30000, NaNTime)
vNoId == VehicleDto("", 50000, 100, 30000, 2)

\* any body of POST /v1/ingest/meter and of POST /v1/ingest/vehicle
AnyMeterDtos == {mB, mBad, mNegAc, mNoDate, mNoId}
AnyVehicleDtos == {vB, vSocOver, vSocUnder, vNegDc, vNoDate, vNoId}

\* ------------------------------------------------------------------ helpers

\* @IsDateString(): the string is an ISO 8601 date
IsDateString(ts) == ts # NaNTime

\* class-validator rules of MeterTelemetryDto: @IsString() on the id, @Min(0) on
\* both numbers, @IsDateString() on the timestamp
MeterDtoValid(d) ==
    /\ d.meterId \in STRING
    /\ d.kwhConsumedAc >= 0
    /\ d.voltage >= 0
    /\ IsDateString(d.timestamp)

\* the rules of VehicleTelemetryDto without @Max(100)
VehicleDtoValidSocUnbounded(d) ==
    /\ d.vehicleId \in STRING
    /\ d.soc >= 0
    /\ d.kwhDeliveredDc >= 0
    /\ IsDateString(d.timestamp)

\* class-validator rules of VehicleTelemetryDto: @IsString() on the id, @Min(0)
\* and @Max(100) on soc, @Min(0) on kwhDeliveredDc, @IsDateString() on the
\* timestamp; batteryTemp is any number
VehicleDtoValid(d) ==
    /\ d.vehicleId \in STRING
    /\ d.soc >= 0
    /\ d.soc <= 100000
    /\ d.kwhDeliveredDc >= 0
    /\ IsDateString(d.timestamp)

\* The handlers whose @Body() parameter is declared with a DTO class.  The
\* batch handlers declare an array (MeterTelemetryDto[]): its run-time type is
\* Array, which carries no rules, so its elements are not checked.
ValidatedBody(op) == op \in {"meter", "vehicle"}

\* the validation pipe: a body is checked against the rules of the class its
\* handler declares
BodyAccepted(op, data) ==
    ValidatedBody(op) =>
        IF op = "meter" THEN MeterDtoValid(data[1]) ELSE VehicleDtoValid(data[1])

\* a value written to a DECIMAL(p, s) column: rounded to the column's scale,
\* half away from zero
ToScale(x) == IF x >= 0 THEN ((x + 5) \div 10) * 10 ELSE -((((-x) + 5) \div 10) * 10)

ClassOf(op) == IF op \in {"meter", "meterBatch"} THEN "meter" ELSE "vehicle"

KeyOf(class, d) == IF class = "meter" THEN d.meterId ELSE d.vehicleId

\* the entity handed to manager.upsert, as the row the table then holds
StatusRow(class, d) ==
    IF class = "meter"
    THEN [meterId |-> d.meterId,
          kwhConsumedAc |-> ToScale(d.kwhConsumedAc),
          voltage |-> ToScale(d.voltage),
          lastUpdated |-> d.timestamp]
    ELSE [vehicleId |-> d.vehicleId,
          soc |-> ToScale(d.soc),
          kwhDeliveredDc |-> ToScale(d.kwhDeliveredDc),
          batteryTemp |-> ToScale(d.batteryTemp),
          lastUpdated |-> d.timestamp]

\* the entity handed to manager.insert, with the surrogate id the table gives it
HistoryRow(class, d, id) ==
    IF class = "meter"
    THEN [id |-> id,
          meterId |-> d.meterId,
          kwhConsumedAc |-> ToScale(d.kwhConsumedAc),
          voltage |-> ToScale(d.voltage),
          timestamp |-> d.timestamp]
    ELSE [id |-> id,
          vehicleId |-> d.vehicleId,
          soc |-> ToScale(d.soc),
          kwhDeliveredDc |-> ToScale(d.kwhDeliveredDc),
          batteryTemp |-> ToScale(d.batteryTemp),
          timestamp |-> d.timestamp]

\* -------------------------------------------------------------------- state

VARIABLES
    currentStatus,  \* committed Current-State tables: class -> device id -> row
    history,        \* committed History tables: class -> set of rows
    historySeq,     \* BIGSERIAL sequences of the History tables: class -> next id
    call,           \* the ingest call each request handler is running
    inUse,          \* pool connections checked out and not released
    started,        \* ingest calls started so far
    commitLog,      \* the committed transactions, in commit order
    createdAt,      \* created_at of the rows stored under a Current-State key:
                    \* class -> device id -> set of transaction numbers
    snap,           \* what each call could read when it started
    qry,            \* the analytics call
    queries         \* analytics calls started so far

vars == <<currentStatus, history, historySeq, call, inUse, started, commitLog,
          createdAt, snap, qry, queries>>

NoPending == [k \in DeviceIds |-> NoRow]

IdleCall ==
    [pc |-> "idle", op |-> "none", data |-> << >>, cid |-> 0, i |-> 1,
     conn |-> FALSE, released |-> 0, inserts |-> {},
     rolledBack |-> FALSE, failedAt |-> "none",
     pendStatus |-> NoPending, pendHistory |-> {}, outcome |-> "none",
     result |-> "none"]

IdleQuery ==
    [pc |-> "idle", vehicleId |-> "", now |-> 0, oneDayAgo |-> 0,
     vehicleData |-> NoRow, vSeen |-> {}, mSeen |-> {}, result |-> [kind |-> "none"]]

Init ==
    /\ currentStatus = [c \in {"meter", "vehicle"} |-> [k \in DeviceIds |-> NoRow]]
    /\ history = [c \in {"meter", "vehicle"} |-> {}]
    /\ historySeq = [c \in {"meter", "vehicle"} |-> 1]
    /\ call = [p \in Procs |-> IdleCall]
    /\ inUse = 0
    /\ started = 0
    /\ commitLog = << >>
    /\ createdAt = [c \in {"meter", "vehicle"} |-> [k \in DeviceIds |-> {}]]
    /\ snap = [p \in Procs |-> [currentStatus |-> currentStatus, history |-> history, logLen |-> 0]]
    /\ qry = IdleQuery
    /\ queries = 0

\* ------------------------------------------------------- ingestion: entry

\* a transaction is open from startTransaction until COMMIT or ROLLBACK was sent
InTransaction(p) == call[p].pc \in {"upsert", "insert", "commit", "rollback"}

\* the batch methods without the guard on data.length: an empty array takes a
\* connection and a transaction like any other batch
EnterWithoutEmptyGuard(p, op, data) ==
    /\ call[p].pc \in {"idle", "done"}
    /\ p = "h1" \/ call["h1"].pc \notin {"idle", "done"}
    /\ started < MaxCalls
    /\ started' = started + 1
    /\ snap' = [snap EXCEPT ![p] = [currentStatus |-> currentStatus,
                                    history |-> history,
                                    logLen |-> Len(commitLog)]]
    /\ call' = [call EXCEPT ![p] =
          [IdleCall EXCEPT
             !.op = op, !.data = data, !.cid = started + 1,
             !.pc = IF ~BodyAccepted(op, data) THEN "done" ELSE "connect",
             !.result = IF ~BodyAccepted(op, data) THEN "rejected" ELSE "none"]]
    /\ UNCHANGED <<currentStatus, history, historySeq, inUse, commitLog, createdAt,
                   qry, queries>>

\* The controller method hands the body to the service method.  A body the
\* pipe refuses never reaches the controller; ingestMeterBatch and
\* ingestVehicleBatch return at once on an empty array.
Enter(p, op, data) ==
    /\ call[p].pc \in {"idle", "done"}
    /\ p = "h1" \/ call["h1"].pc \notin {"idle", "done"}
    /\ started < MaxCalls
    /\ started' = started + 1
    /\ snap' = [snap EXCEPT ![p] = [currentStatus |-> currentStatus,
                                    history |-> history,
                                    logLen |-> Len(commitLog)]]
    /\ call' = [call EXCEPT ![p] =
          [IdleCall EXCEPT
             !.op = op, !.data = data, !.cid = started + 1,
             !.pc = IF ~BodyAccepted(op, data) THEN "done"
                    ELSE IF op \in {"meterBatch", "vehicleBatch"} /\ Len(data) = 0
                         THEN "done" ELSE "connect",
             !.result = IF ~BodyAccepted(op, data) THEN "rejected"
                        ELSE IF op \in {"meterBatch", "vehicleBatch"} /\ Len(data) = 0
                             THEN "success" ELSE "none"]]
    /\ UNCHANGED <<currentStatus, history, historySeq, inUse, commitLog, createdAt,
                   qry, queries>>

IngestMeter(p) == \E d \in MeterDtos : Enter(p, "meter", <<d>>)

IngestVehicle(p) == \E d \in VehicleDtos : Enter(p, "vehicle", <<d>>)

\* the single-record endpoints with any body
IngestAnyMeter(p) == \E d \in AnyMeterDtos : Enter(p, "meter", <<d>>)

IngestAnyVehicle(p) == \E d \in AnyVehicleDtos : Enter(p, "vehicle", <<d>>)

IngestMeterBatch(p) == \E b \in MeterBatches : Enter(p, "meterBatch", b)

IngestVehicleBatch(p) == \E b \in VehicleBatches : Enter(p, "vehicleBatch", b)

\* ------------------------------------------------ ingestion: service steps

Quiet == UNCHANGED <<currentStatus, history, historySeq, started, commitLog,
                     createdAt, snap, qry, queries>>

\* createQueryRunner() and connect(): a pool connection is checked out
Connect(p) ==
    /\ call[p].pc = "connect"
    /\ call' = [call EXCEPT ![p].pc = "begin", ![p].conn = TRUE]
    /\ inUse' = inUse + 1
    /\ Quiet

\* connect() rejects (no connection within connectionTimeoutMillis): the
\* exception leaves the method, nothing was acquired
ConnectFails(p) ==
    /\ call[p].pc = "connect"
    /\ call' = [call EXCEPT ![p].pc = "done", ![p].failedAt = "connect",
                            ![p].result = "error"]
    /\ UNCHANGED inUse
    /\ Quiet

\* startTransaction()
StartTransaction(p) ==
    /\ call[p].pc = "begin"
    /\ call' = [call EXCEPT ![p].pc = "upsert"]
    /\ UNCHANGED inUse
    /\ Quiet

\* startTransaction() rejects: the call stands before the try block, so the
\* exception leaves the method past catch and finally
StartTransactionFails(p) ==
    /\ call[p].pc = "begin"
    /\ call' = [call EXCEPT ![p].pc = "done", ![p].failedAt = "begin",
                            ![p].result = "error"]
    /\ UNCHANGED inUse
    /\ Quiet

\* a Current-State table without a primary key: an upsert finds nothing to wait
\* for and nothing to conflict with
LockedNever(p, class, key) == FALSE

\* the row lock of INSERT ... ON CONFLICT: the key is written by another open
\* transaction
Locked(p, class, key) ==
    \E o \in Procs \ {p} :
        /\ InTransaction(o)
        /\ ClassOf(call[o].op) = class
        /\ call[o].pendStatus[key] # NoRow

\* Upsert through a repository of the data source instead of the query runner's
\* manager: the statement runs outside the transaction and is visible at once
UpsertOutsideTransaction(p) ==
    LET c == call[p]
        class == ClassOf(c.op)
        d == c.data[c.i]
        key == KeyOf(class, d)
    IN /\ c.pc = "upsert"
       /\ ~Locked(p, class, key)
       /\ currentStatus' = [currentStatus EXCEPT ![class][key] = StatusRow(class, d)]
       /\ call' = [call EXCEPT
             ![p].i = c.i + 1,
             ![p].pc = IF c.i = Len(c.data) THEN "insert" ELSE "upsert"]
       /\ UNCHANGED <<history, historySeq, inUse, started, commitLog, createdAt, snap, qry,
                      queries>>

\* a batch loop that writes each device once: a record of a device the batch
\* has already upserted is skipped
UpsertOncePerDevice(p) ==
    LET c == call[p]
        class == ClassOf(c.op)
        d == c.data[c.i]
        key == KeyOf(class, d)
    IN /\ c.pc = "upsert"
       /\ ~Locked(p, class, key)
       /\ call' = [call EXCEPT
             ![p].pendStatus = IF c.pendStatus[key] # NoRow THEN c.pendStatus
                               ELSE [c.pendStatus EXCEPT ![key] = StatusRow(class, d)],
             ![p].inserts = IF currentStatus[class][key] = NoRow
                               /\ c.pendStatus[key] = NoRow
                            THEN c.inserts \cup {key} ELSE c.inserts,
             ![p].i = c.i + 1,
             ![p].pc = IF c.i = Len(c.data) THEN "insert" ELSE "upsert"]
       /\ UNCHANGED inUse
       /\ Quiet

\* manager.upsert(entity, [key]) of the record at position i; the batch
\* methods call it once per record, in the order of the array
Upsert(p) ==
    LET c == call[p]
        class == ClassOf(c.op)
        d == c.data[c.i]
        key == KeyOf(class, d)
    IN /\ c.pc = "upsert"
       /\ ~Locked(p, class, key)
       /\ call' = [call EXCEPT
             ![p].pendStatus = [c.pendStatus EXCEPT ![key] = StatusRow(class, d)],
             ![p].inserts = IF currentStatus[class][key] = NoRow
                               /\ c.pendStatus[key] = NoRow
                            THEN c.inserts \cup {key} ELSE c.inserts,
             ![p].i = c.i + 1,
             ![p].pc = IF c.i = Len(c.data) THEN "insert" ELSE "upsert"]
       /\ UNCHANGED inUse
       /\ Quiet

\* a catch block that logs the error and goes on: no rollback, no rethrow
UpsertFailsSwallowed(p) ==
    /\ call[p].pc = "upsert"
    /\ call' = [call EXCEPT ![p].pc = "release", ![p].failedAt = "upsert",
                            ![p].outcome = "success",
                            ![p].pendStatus = NoPending, ![p].pendHistory = {},
                               ![p].inserts = {}]
    /\ UNCHANGED inUse
    /\ Quiet

\* an upsert rejects (statement error, deadlock victim, lost connection): catch
UpsertFails(p) ==
    /\ call[p].pc = "upsert"
    /\ call' = [call EXCEPT ![p].pc = "rollback", ![p].failedAt = "upsert"]
    /\ UNCHANGED inUse
    /\ Quiet

\* insert of the first record only
InsertedRowsFirstOnly(class, data, first) == {HistoryRow(class, data[1], first)}

\* the rows of one manager.insert: one per record, ids from the sequence
InsertedRows(class, data, first) ==
    {HistoryRow(class, data[k], first + k - 1) : k \in 1 .. Len(data)}

\* the history insert through a repository of the data source: it runs outside
\* the transaction and is visible at once
InsertOutsideTransaction(p) ==
    LET c == call[p]
        class == ClassOf(c.op)
        rows == InsertedRows(class, c.data, historySeq[class])
    IN /\ c.pc = "insert"
       /\ history' = [history EXCEPT ![class] = @ \cup rows]
       /\ call' = [call EXCEPT ![p].pendHistory = rows, ![p].pc = "commit"]
       /\ historySeq' = [historySeq EXCEPT ![class] = @ + Len(c.data)]
       /\ UNCHANGED <<currentStatus, inUse, started, commitLog, createdAt, snap, qry, queries>>

\* manager.insert(History, ...): one row for a single ingest, data.map(...) for
\* a batch
Insert(p) ==
    LET c == call[p]
        class == ClassOf(c.op)
    IN /\ c.pc = "insert"
       /\ call' = [call EXCEPT
             ![p].pendHistory = InsertedRows(class, c.data, historySeq[class]),
             ![p].pc = "commit"]
       /\ historySeq' = [historySeq EXCEPT ![class] = @ + Len(c.data)]
       /\ UNCHANGED <<currentStatus, history, inUse, started, commitLog, createdAt, snap, qry,
                      queries>>

\* an insert rejects: catch
InsertFails(p) ==
    /\ call[p].pc = "insert"
    /\ call' = [call EXCEPT ![p].pc = "rollback", ![p].failedAt = "insert"]
    /\ UNCHANGED inUse
    /\ Quiet

\* ON CONFLICT DO NOTHING: a row that exists is left as it is
ApplyUpsertsInsertOnly(table, pend) ==
    [k \in DeviceIds |-> IF pend[k] # NoRow /\ table[k] = NoRow THEN pend[k] ELSE table[k]]

\* an upsert guarded by the observation timestamp: an older record does not
\* replace a newer row
ApplyUpsertsNewestWins(table, pend) ==
    [k \in DeviceIds |->
        IF pend[k] # NoRow /\ (table[k] = NoRow \/ table[k].lastUpdated <= pend[k].lastUpdated)
        THEN pend[k] ELSE table[k]]

\* a bulk load that replaces the table: the rows of other devices are gone
ApplyUpsertsReplacingTable(table, pend) == [k \in DeviceIds |-> pend[k]]

\* the Current-State table after a transaction's upserts became visible
ApplyUpserts(table, pend) ==
    [k \in DeviceIds |-> IF pend[k] # NoRow THEN pend[k] ELSE table[k]]

\* an upsert that lists created_at among the columns to overwrite: every
\* upserted row carries the time of the last transaction that wrote it
ApplyInsertsRestamping(stamps, inserts, pend, now) ==
    [k \in DeviceIds |-> IF pend[k] # NoRow THEN {now} ELSE stamps[k]]

\* created_at after a transaction's upserts became visible: the rows the
\* transaction inserted carry the time of the transaction (the default of the
\* column; the model's clock is the number of the call), the rows it updated
\* keep theirs, since the upsert overwrites only the columns of the entity
\* handed to it
ApplyInserts(stamps, inserts, pend, now) ==
    [k \in DeviceIds |-> IF k \in inserts THEN stamps[k] \cup {now} ELSE stamps[k]]

\* a History table with a unique constraint on the observation: a row that
\* differs from a stored one in its surrogate id only is skipped
CommitSkippingDuplicates(p) ==
    LET c == call[p]
        class == ClassOf(c.op)
        stored == {[h EXCEPT !.id = 0] : h \in history[class]}
        fresh == {h \in c.pendHistory : [h EXCEPT !.id = 0] \notin stored}
    IN /\ c.pc = "commit"
       /\ currentStatus' = [currentStatus EXCEPT
             ![class] = ApplyUpserts(currentStatus[class], c.pendStatus)]
       /\ history' = [history EXCEPT ![class] = @ \cup fresh]
       /\ commitLog' = Append(commitLog,
             [cid |-> c.cid, class |-> class, data |-> c.data,
              ids |-> {h.id : h \in c.pendHistory}])
       /\ createdAt' = [createdAt EXCEPT
             ![class] = ApplyInserts(createdAt[class], c.inserts, c.pendStatus, c.cid)]
       /\ call' = [call EXCEPT ![p].pc = "release", ![p].outcome = "success",
                               ![p].pendStatus = NoPending, ![p].pendHistory = {},
                               ![p].inserts = {}]
       /\ UNCHANGED <<historySeq, inUse, started, snap, qry, queries>>

\* commitTransaction(): every write of the transaction becomes visible at once
Commit(p) ==
    LET c == call[p]
        class == ClassOf(c.op)
    IN /\ c.pc = "commit"
       /\ currentStatus' = [currentStatus EXCEPT
             ![class] = ApplyUpserts(currentStatus[class], c.pendStatus)]
       /\ history' = [history EXCEPT ![class] = @ \cup c.pendHistory]
       /\ commitLog' = Append(commitLog,
             [cid |-> c.cid, class |-> class, data |-> c.data,
              ids |-> {h.id : h \in c.pendHistory}])
       /\ createdAt' = [createdAt EXCEPT
             ![class] = ApplyInserts(createdAt[class], c.inserts, c.pendStatus, c.cid)]
       /\ call' = [call EXCEPT ![p].pc = "release", ![p].outcome = "success",
                               ![p].pendStatus = NoPending, ![p].pendHistory = {},
                               ![p].inserts = {}]
       /\ UNCHANGED <<historySeq, inUse, started, snap, qry, queries>>

\* a failed commit that is logged and not thrown: the method returns normally
CommitFailsSwallowed(p) ==
    /\ call[p].pc = "commit"
    /\ call' = [call EXCEPT ![p].pc = "release", ![p].failedAt = "commit",
                            ![p].outcome = "success",
                            ![p].pendStatus = NoPending, ![p].pendHistory = {},
                               ![p].inserts = {}]
    /\ UNCHANGED inUse
    /\ Quiet

\* a commit that took effect although commitTransaction() rejected (the answer
\* of the server was lost): the catch block then rolls back a transaction that
\* is already committed
CommitFailsApplied(p) ==
    LET c == call[p]
        class == ClassOf(c.op)
    IN /\ c.pc = "commit"
       /\ currentStatus' = [currentStatus EXCEPT
             ![class] = ApplyUpserts(currentStatus[class], c.pendStatus)]
       /\ history' = [history EXCEPT ![class] = @ \cup c.pendHistory]
       /\ commitLog' = Append(commitLog,
             [cid |-> c.cid, class |-> class, data |-> c.data,
              ids |-> {h.id : h \in c.pendHistory}])
       /\ createdAt' = [createdAt EXCEPT
             ![class] = ApplyInserts(createdAt[class], c.inserts, c.pendStatus, c.cid)]
       /\ call' = [call EXCEPT ![p].pc = "rollback", ![p].failedAt = "commit"]
       /\ UNCHANGED <<historySeq, inUse, started, snap, qry, queries>>

\* commitTransaction() rejects: catch
CommitFails(p) ==
    /\ call[p].pc = "commit"
    /\ call' = [call EXCEPT ![p].pc = "rollback", ![p].failedAt = "commit"]
    /\ UNCHANGED inUse
    /\ Quiet

\* A catch block that ends the transaction with COMMIT: the writes done before
\* the failure stay
RollbackKeepsWrites(p) ==
    LET c == call[p]
        class == ClassOf(c.op)
    IN /\ c.pc = "rollback"
       /\ currentStatus' = [currentStatus EXCEPT
             ![class] = [k \in DeviceIds |->
                IF c.pendStatus[k] # NoRow THEN c.pendStatus[k] ELSE currentStatus[class][k]]]
       /\ history' = [history EXCEPT ![class] = @ \cup c.pendHistory]
       /\ call' = [call EXCEPT ![p].pc = "release", ![p].outcome = "error",
                               ![p].rolledBack = TRUE,
                               ![p].pendStatus = NoPending, ![p].pendHistory = {},
                               ![p].inserts = {}]
       /\ UNCHANGED <<historySeq, inUse, started, commitLog, createdAt, snap, qry, queries>>

\* catch: rollbackTransaction(), then the error is thrown again
Rollback(p) ==
    /\ call[p].pc = "rollback"
    /\ call' = [call EXCEPT ![p].pc = "release", ![p].outcome = "error",
                            ![p].rolledBack = TRUE,
                            ![p].pendStatus = NoPending, ![p].pendHistory = {},
                               ![p].inserts = {}]
    /\ UNCHANGED inUse
    /\ Quiet

\* rollbackTransaction() rejects: its error replaces the first one; finally
\* still runs
RollbackFails(p) ==
    /\ call[p].pc = "rollback"
    /\ call' = [call EXCEPT ![p].pc = "release", ![p].outcome = "error",
                            ![p].rolledBack = TRUE, ![p].failedAt = "rollback",
                            ![p].pendStatus = NoPending, ![p].pendHistory = {},
                               ![p].inserts = {}]
    /\ UNCHANGED inUse
    /\ Quiet

\* finally: release(); then the method returns or throws
Release(p) ==
    /\ call[p].pc = "release"
    /\ call' = [call EXCEPT ![p].pc = "done", ![p].conn = FALSE,
                            ![p].released = @ + 1,
                            ![p].result = call[p].outcome]
    /\ inUse' = inUse - 1
    /\ Quiet

Ingest(p) ==
    \/ IngestMeter(p)
    \/ IngestVehicle(p)
    \/ IngestMeterBatch(p)
    \/ IngestVehicleBatch(p)
    \/ Connect(p)
    \/ ConnectFails(p)
    \/ StartTransaction(p)
    \/ StartTransactionFails(p)
    \/ Upsert(p)
    \/ UpsertFails(p)
    \/ Insert(p)
    \/ InsertFails(p)
    \/ Commit(p)
    \/ CommitFails(p)
    \/ Rollback(p)
    \/ RollbackFails(p)
    \/ Release(p)

\* ----------------------------------------------------------------- analytics

RECURSIVE SumDc(_)
SumDc(rows) ==
    IF rows = {} THEN 0
    ELSE LET r == CHOOSE x \in rows : TRUE
         IN r.kwhDeliveredDc + SumDc(rows \ {r})

RECURSIVE SumTemp(_)
SumTemp(rows) ==
    IF rows = {} THEN 0
    ELSE LET r == CHOOSE x \in rows : TRUE
         IN r.batteryTemp + SumTemp(rows \ {r})

RECURSIVE SumAc(_)
SumAc(rows) ==
    IF rows = {} THEN 0
    ELSE LET r == CHOOSE x \in rows : TRUE
         IN r.kwhConsumedAc + SumAc(rows \ {r})

\* the range read without the device filter
VehicleRowsOfAnyDevice(table, vehicleId, start, end) ==
    {v \in table : v.timestamp >= start /\ v.timestamp <= end}

\* WHERE v.vehicleId = :vehicleId AND v.timestamp >= :start AND v.timestamp <= :end
VehicleRows(table, vehicleId, start, end) ==
    {v \in table : v.vehicleId = vehicleId /\ v.timestamp >= start /\ v.timestamp <= end}

\* the range read with a half-open window, m.timestamp < :end
MeterRowsBeforeEnd(table, meterId, start, end) ==
    {m \in table : m.meterId = meterId /\ m.timestamp >= start /\ m.timestamp < end}

\* WHERE m.meterId = :meterId AND m.timestamp >= :start AND m.timestamp <= :end
MeterRows(table, meterId, start, end) ==
    {m \in table : m.meterId = meterId /\ m.timestamp >= start /\ m.timestamp <= end}

\* Math.round(num / den) for den > 0: the nearest integer, a half goes up
MathRound(num, den) == (2 * num + den) \div (2 * den)

\* The quotient num / den (num >= 0, den > 0) is kept as the pair of its terms;
\* its decimal expansion is taken digit by digit, which stays inside 32 bits for
\* the energy totals of the model (10 * den < 2^31).
RECURSIVE ScaledRem(_, _, _)
ScaledRem(num, den, digits) ==
    IF digits = 0 THEN num % den ELSE (ScaledRem(num, den, digits - 1) * 10) % den

\* floor(num / den * 10^digits)
RECURSIVE ScaledFloor(_, _, _)
ScaledFloor(num, den, digits) ==
    IF digits = 0 THEN num \div den
    ELSE ScaledFloor(num, den, digits - 1) * 10
            + (ScaledRem(num, den, digits - 1) * 10) \div den

\* the ratio cut off after the last digit kept
RoundedRatioTruncated(num, den, digits) == ScaledFloor(num, den, digits)

\* Math.round(num / den * 10^digits), in units of 10^-digits
RoundedRatio(num, den, digits) ==
    ScaledFloor(num, den, digits)
        + (IF 2 * ScaledRem(num, den, digits) >= den THEN 1 ELSE 0)

\* fewest samples calculateHealthStatus classifies
MinDataPoints == 10

\* the bands without the sample-count gate
calculateHealthStatusNoGate(num, den, dataPoints) ==
    IF ScaledFloor(num, den, 2) >= 90 THEN "EXCELLENT"
    ELSE IF ScaledFloor(num, den, 2) >= 85 THEN "NORMAL"
    ELSE IF ScaledFloor(num, den, 2) >= 75 THEN "WARNING"
    ELSE "CRITICAL"

\* the bands as the comment above the method words them (">0.90: Excellent"):
\* a ratio on a threshold falls into the band below
calculateHealthStatusExclusive(num, den, dataPoints) ==
    LET above(pct) == \/ ScaledFloor(num, den, 2) > pct
                      \/ ScaledFloor(num, den, 2) = pct /\ ScaledRem(num, den, 2) > 0
    IN IF dataPoints < MinDataPoints THEN "INSUFFICIENT_DATA"
       ELSE IF above(90) THEN "EXCELLENT"
       ELSE IF above(85) THEN "NORMAL"
       ELSE IF above(75) THEN "WARNING"
       ELSE "CRITICAL"

\* calculateHealthStatus(efficiency, dataPoints), efficiency = num / den, den > 0;
\* efficiency >= 0.85 is floor(efficiency * 100) >= 85
calculateHealthStatus(num, den, dataPoints) ==
    IF dataPoints < MinDataPoints THEN "INSUFFICIENT_DATA"
    ELSE IF ScaledFloor(num, den, 2) >= 90 THEN "EXCELLENT"
    ELSE IF ScaledFloor(num, den, 2) >= 85 THEN "NORMAL"
    ELSE IF ScaledFloor(num, den, 2) >= 75 THEN "WARNING"
    ELSE "CRITICAL"

\* getVehiclePerformance(vehicleId): the clock is read once, the window is
\* [now - 24 h, now]
GetVehiclePerformance ==
    \E vehicleId \in DeviceIds \ {""}, now \in Nows :
        /\ qry.pc \in {"idle", "done"}
        /\ queries < MaxQueries
        /\ queries' = queries + 1
        /\ qry' = [IdleQuery EXCEPT !.pc = "vehicle", !.vehicleId = vehicleId,
                                    !.now = now, !.oneDayAgo = now - DayMs]
        /\ UNCHANGED <<currentStatus, history, historySeq, call, inUse, started,
                       commitLog, createdAt, snap>>

\* the not-found check made on both streams: a vehicle without samples in the
\* window still gets a Summary when its meter has samples there
QueryVehicleNotFoundIfBothEmpty ==
    LET rows == VehicleRows(history["vehicle"], qry.vehicleId, qry.oneDayAgo, qry.now)
        meter == MeterRows(history["meter"], qry.vehicleId, qry.oneDayAgo, qry.now)
        vehicleData == [totalDc |-> SumDc(rows), sumTemp |-> SumTemp(rows),
                        count |-> Cardinality(rows)]
    IN /\ qry.pc = "vehicle"
       /\ qry' = [qry EXCEPT
             !.vehicleData = vehicleData,
             !.vSeen = history["vehicle"],
             !.pc = IF vehicleData.count = 0 THEN "done" ELSE "meter",
             !.result = IF vehicleData.count = 0 /\ meter = {}
                        THEN [kind |-> "NotFound", vehicleId |-> qry.vehicleId]
                        ELSE IF vehicleData.count = 0
                        THEN [kind |-> "Summary", vehicleId |-> qry.vehicleId,
                              dataPointsAnalyzed |-> 0]
                        ELSE [kind |-> "none"]]
       /\ UNCHANGED <<currentStatus, history, historySeq, call, inUse, started,
                      commitLog, createdAt, snap, queries>>

\* query 1 that also stamps the vehicle's Current-State row with the time of
\* the request
QueryVehicleStampingStatus ==
    LET rows == VehicleRows(history["vehicle"], qry.vehicleId, qry.oneDayAgo, qry.now)
        vehicleData == [totalDc |-> SumDc(rows), sumTemp |-> SumTemp(rows),
                        count |-> Cardinality(rows)]
    IN /\ qry.pc = "vehicle"
       /\ qry' = [qry EXCEPT
             !.vehicleData = vehicleData,
             !.vSeen = history["vehicle"],
             !.pc = IF vehicleData.count = 0 THEN "done" ELSE "meter",
             !.result = IF vehicleData.count = 0
                        THEN [kind |-> "NotFound", vehicleId |-> qry.vehicleId]
                        ELSE [kind |-> "none"]]
       /\ currentStatus' = [currentStatus EXCEPT !["vehicle"][qry.vehicleId] =
             IF @ = NoRow THEN @ ELSE [@ EXCEPT !.lastUpdated = qry.now]]
       /\ UNCHANGED <<history, historySeq, call, inUse, started, commitLog, createdAt, snap,
                      queries>>

\* query 1 (SUM, AVG and COUNT over the vehicle History) and the not-found check
QueryVehicle ==
    LET rows == VehicleRows(history["vehicle"], qry.vehicleId, qry.oneDayAgo, qry.now)
        vehicleData == [totalDc |-> SumDc(rows), sumTemp |-> SumTemp(rows),
                        count |-> Cardinality(rows)]
    IN /\ qry.pc = "vehicle"
       /\ qry' = [qry EXCEPT
             !.vehicleData = vehicleData,
             !.vSeen = history["vehicle"],
             !.pc = IF vehicleData.count = 0 THEN "done" ELSE "meter",
             !.result = IF vehicleData.count = 0
                        THEN [kind |-> "NotFound", vehicleId |-> qry.vehicleId]
                        ELSE [kind |-> "none"]]
       /\ UNCHANGED <<currentStatus, history, historySeq, call, inUse, started,
                      commitLog, createdAt, snap, queries>>

\* a second not-found check after the meter query
QueryMeterRequiresMeterRows ==
    LET rows == MeterRows(history["meter"], qry.vehicleId, qry.oneDayAgo, qry.now)
    IN /\ qry.pc = "meter"
       /\ qry' = [qry EXCEPT
             !.pc = "done",
             !.mSeen = history["meter"],
             !.result = IF rows = {}
                        THEN [kind |-> "NotFound", vehicleId |-> qry.vehicleId]
                        ELSE [kind |-> "Summary", vehicleId |-> qry.vehicleId,
                              totalEnergyConsumedAc |-> SumAc(rows),
                              totalEnergyDeliveredDc |-> qry.vehicleData.totalDc,
                              efficiencyRatio |->
                                  MathRound(qry.vehicleData.totalDc * 10000,
                                            IF SumAc(rows) > 0 THEN SumAc(rows) ELSE 1),
                              dataPointsAnalyzed |-> qry.vehicleData.count]]
       /\ UNCHANGED <<currentStatus, history, historySeq, call, inUse, started,
                      commitLog, createdAt, snap, queries>>

\* query 2 (SUM over the meter History, meterId = vehicleId), the ratio, the
\* status and the returned DTO
QueryMeter ==
    LET meterId == qry.vehicleId
        rows == MeterRows(history["meter"], meterId, qry.oneDayAgo, qry.now)
        totalEnergyDeliveredDc == qry.vehicleData.totalDc
        totalEnergyConsumedAc == SumAc(rows)
        dataPointsAnalyzed == qry.vehicleData.count
        effNum == IF totalEnergyConsumedAc > 0 THEN totalEnergyDeliveredDc ELSE 0
        effDen == IF totalEnergyConsumedAc > 0 THEN totalEnergyConsumedAc ELSE 1
    IN /\ qry.pc = "meter"
       /\ qry' = [qry EXCEPT
             !.pc = "done",
             !.mSeen = history["meter"],
             !.result =
                [kind |-> "Summary",
                 vehicleId |-> qry.vehicleId,
                 periodStart |-> qry.oneDayAgo,
                 periodEnd |-> qry.now,
                 totalEnergyConsumedAc |-> totalEnergyConsumedAc,
                 totalEnergyDeliveredDc |-> totalEnergyDeliveredDc,
                 efficiencyRatio |-> RoundedRatio(effNum, effDen, 4),
                 avgBatteryTemp |-> MathRound(qry.vehicleData.sumTemp,
                                              10 * dataPointsAnalyzed),
                 dataPointsAnalyzed |-> dataPointsAnalyzed,
                 healthStatus |-> calculateHealthStatus(effNum, effDen,
                                                        dataPointsAnalyzed)]]
       /\ UNCHANGED <<currentStatus, history, historySeq, call, inUse, started,
                      commitLog, createdAt, snap, queries>>

\* ------------------------------------------------------------ specifications

\* the ingestion service under two concurrent request handlers
Next == \E p \in Procs : Ingest(p)

Spec == Init /\ [][Next]_vars

\* the ingestion service under one request handler: one call after the other
NextSerial == Ingest("h1")

SpecSerial == Init /\ [][NextSerial]_vars

\* call p waits in an upsert for a key that call o has written, and o waits in
\* an upsert for a key that p has written
Deadlocked(p) ==
    \E o \in Procs \ {p} :
        /\ call[p].pc = "upsert" /\ call[o].pc = "upsert"
        /\ ClassOf(call[p].op) = ClassOf(call[o].op)
        /\ call[o].pendStatus[KeyOf(ClassOf(call[p].op), call[p].data[call[p].i])] # NoRow
        /\ call[p].pendStatus[KeyOf(ClassOf(call[o].op), call[o].data[call[o].i])] # NoRow

\* a database that waits for a lock without looking for cycles
NoDeadlockDetection(p) == FALSE /\ UpsertFails(p)

\* the database finds the cycle after deadlock_timeout and ends the statement
\* of one waiting transaction with an error
DeadlockVictim(p) == Deadlocked(p) /\ UpsertFails(p)

\* every awaited step of a call comes back, with its result or with an error;
\* an upsert comes back once the row is free
Progress(p) ==
    \/ Connect(p)
    \/ ConnectFails(p)
    \/ StartTransaction(p)
    \/ StartTransactionFails(p)
    \/ Upsert(p)
    \/ Insert(p)
    \/ InsertFails(p)
    \/ Commit(p)
    \/ CommitFails(p)
    \/ Rollback(p)
    \/ RollbackFails(p)
    \/ Release(p)

\* Two request handlers that ingest the same meters at the same time: a single
\* record of "V-1", or one of two batches that name "V-1" and "V-2" in
\* opposite orders
OpposedBatches == {<<mA, mE>>, <<mE, mA>>}

IngestFirst(p) == Enter(p, "meter", <<mB>>)

IngestOpposed(p) == \E b \in OpposedBatches : Enter(p, "meterBatch", b)

Race(p) ==
    \/ IngestFirst(p)
    \/ IngestOpposed(p)
    \/ Progress(p)
    \/ UpsertFails(p)

NextRace == \E p \in Procs : Race(p)

SpecRace == Init /\ [][NextRace]_vars

\* the two handlers with the opposed batches only, under fair scheduling: no
\* awaited step hangs
NextOpposed == \E p \in Procs : IngestOpposed(p) \/ Progress(p) \/ UpsertFails(p)

SpecOpposedFair ==
    /\ Init
    /\ [][NextOpposed]_vars
    /\ \A p \in Procs : WF_vars(Progress(p)) /\ WF_vars(DeadlockVictim(p))

\* the single-record endpoints under one request handler, with bodies that
\* keep and bodies that break the input constraints
NextValidation ==
    \/ IngestAnyMeter("h1")
    \/ IngestAnyVehicle("h1")
    \/ Connect("h1")
    \/ ConnectFails("h1")
    \/ StartTransaction("h1")
    \/ StartTransactionFails("h1")
    \/ Upsert("h1")
    \/ UpsertFails("h1")
    \/ Insert("h1")
    \/ InsertFails("h1")
    \/ Commit("h1")
    \/ CommitFails("h1")
    \/ Rollback("h1")
    \/ RollbackFails("h1")
    \/ Release("h1")

SpecValidation == Init /\ [][NextValidation]_vars

\* the analytics service next to one request handler that ingests
NextAnalytics ==
    \/ Ingest("h1")
    \/ GetVehiclePerformance
    \/ QueryVehicle
    \/ QueryMeter

SpecAnalytics == Init /\ [][NextAnalytics]_vars

\* The analytics service next to one request handler that ingests, over tables
\* that hold one record of the vehicle "V-1" already: an ingest of vB that
\* committed before the behaviour starts (call number 0)
InitSnapshot ==
    LET vRows == InsertedRows("vehicle", <<vB>>, 1)
        vEntry == [cid |-> 0, class |-> "vehicle", data |-> <<vB>>,
                   ids |-> {h.id : h \in vRows}]
    IN /\ history = [c \in {"meter", "vehicle"} |-> IF c = "vehicle" THEN vRows ELSE {}]
       /\ currentStatus = [c \in {"meter", "vehicle"} |->
             [k \in DeviceIds |->
                IF c = "vehicle" /\ k = "V-1" THEN StatusRow("vehicle", vB) ELSE NoRow]]
       /\ historySeq = [c \in {"meter", "vehicle"} |-> IF c = "vehicle" THEN 2 ELSE 1]
       /\ commitLog = <<vEntry>>
       /\ createdAt = [c \in {"meter", "vehicle"} |->
             [k \in DeviceIds |-> IF c = "vehicle" /\ k = "V-1" THEN {0} ELSE {}]]
       /\ started = 0
       /\ call = [p \in Procs |-> IdleCall]
       /\ inUse = 0
       /\ snap = [p \in Procs |->
                     [currentStatus |-> currentStatus, history |-> history, logLen |-> 1]]
       /\ qry = IdleQuery
       /\ queries = 0

SpecSnapshot == InitSnapshot /\ [][NextAnalytics]_vars

\* The analytics service over a History that earlier ingest calls filled: one
\* committed vehicle batch of n records and one committed meter batch of m
\* records of V-1, one record a minute from ScenarioStart on, every record of a
\* batch with the same energy value.
MinuteMs == 60 * 1000

\* T of the scenario: a call with the clock at DayMs + 1 runs at T + 10 min
ScenarioStart == DayMs + 1 - 10 * MinuteMs

\* records per batch: below, on and above the sample-count gate; a meter batch
\* of no record leaves the meter History empty
VehicleCounts == {9, 10, 11}
MeterCounts == {0, 9, 10, 11}

\* kwhDeliveredDc of a vehicle record: with 1.00000 kWh per meter record and as
\* many meter records the ratio is 0, 0.7499, 0.75, 0.8499, 0.85, 0.8999, 0.90
\* and 2; 105.2134 kWh is the record of the scenario; 8.9996 kWh against
\* 10.0000 kWh per meter record makes the ratio 0.89996
HealthDcs ==
    {0, 74990, 75000, 84990, 85000, 89990, 90000, 200000, 899960, 10521340}

\* kwhConsumedAc of a meter record; 125.5432 kWh is the record of the scenario
HealthAcs == {100000, 1000000, 12554320}

HealthVehicleBatch(n, dc) ==
    [k \in 1 .. n |-> VehicleDto("V-1", 85500, dc, 32500,
                                 ScenarioStart + (k - 1) * MinuteMs)]

HealthMeterBatch(m, ac) ==
    [k \in 1 .. m |-> MeterDto("V-1", ac, 240500,
                               ScenarioStart + (k - 1) * MinuteMs)]

\* the tables after the two batches were committed, the vehicle batch first
InitHealth ==
    \E n \in VehicleCounts, m \in MeterCounts, dc \in HealthDcs, ac \in HealthAcs :
        LET vb == HealthVehicleBatch(n, dc)
            mb == HealthMeterBatch(m, ac)
            vRows == InsertedRows("vehicle", vb, 1)
            mRows == InsertedRows("meter", mb, 1)
            vEntry == [cid |-> 1, class |-> "vehicle", data |-> vb,
                       ids |-> {h.id : h \in vRows}]
            mEntry == [cid |-> 2, class |-> "meter", data |-> mb,
                       ids |-> {h.id : h \in mRows}]
        IN /\ m = 0 => ac = 100000
           /\ history = [c \in {"meter", "vehicle"} |->
                            IF c = "vehicle" THEN vRows ELSE mRows]
           /\ currentStatus = [c \in {"meter", "vehicle"} |->
                 [k \in DeviceIds |->
                    IF k # "V-1" THEN NoRow
                    ELSE IF c = "vehicle" THEN StatusRow("vehicle", vb[n])
                    ELSE IF m = 0 THEN NoRow
                    ELSE StatusRow("meter", mb[m])]]
           /\ historySeq = [c \in {"meter", "vehicle"} |->
                               IF c = "vehicle" THEN n + 1 ELSE m + 1]
           /\ commitLog = IF m = 0 THEN <<vEntry>> ELSE <<vEntry, mEntry>>
           /\ createdAt = [c \in {"meter", "vehicle"} |->
                 [k \in DeviceIds |->
                    IF k # "V-1" THEN {}
                    ELSE IF c = "vehicle" THEN {1}
                    ELSE IF m = 0 THEN {} ELSE {2}]]
           /\ started = IF m = 0 THEN 1 ELSE 2
           /\ call = [p \in Procs |-> IdleCall]
           /\ inUse = 0
           /\ snap = [p \in Procs |->
                         [currentStatus |-> [c \in {"meter", "vehicle"} |->
                                               [k \in DeviceIds |-> NoRow]],
                          history |-> [c \in {"meter", "vehicle"} |-> {}],
                          logLen |-> 0]]
           /\ qry = IdleQuery
           /\ queries = 0

NextHealth ==
    \/ GetVehiclePerformance
    \/ QueryVehicle
    \/ QueryMeter

SpecHealth == InitHealth /\ [][NextHealth]_vars

\* scripts/generate-test-data.js: String(i).padStart(3, '0')
PadStart3(i) ==
    IF i < 10 THEN "00" \o ToString(i)
    ELSE IF i < 100 THEN "0" \o ToString(i) ELSE ToString(i)

\* the identifiers under which the generator sends the readings of vehicle i
\* and of the meter it generates with it
GenVehicleId(i) == "VEHICLE-" \o PadStart3(i)

GenMeterId(i) == "METER-" \o PadStart3(i)

\* VEHICLE_COUNT of a generator run
GenVehicleCount == 2

\* the intervals of a run (DURATION_HOURS * 60 / INTERVAL_MINUTES), scaled down
\* to runs around the sample-count gate
GenIntervals == {9, 10, 11}

\* the energies of a generated reading: kwhDeliveredDc in [85, 93) kWh and
\* kwhConsumedAc in [100, 110) kWh; every reading of a run carries the same
GenDcs == {8500000, 8900000, 9299990}
GenAcs == {10000000, 10500000, 10999990}

GenIds == {GenVehicleId(i) : i \in 1 .. GenVehicleCount}
             \cup {GenMeterId(i) : i \in 1 .. GenVehicleCount}

\* the batches of a run: per interval one reading of every vehicle and of
\* every meter, in the order of the two loops
GenVehicleBatch(n, dc) ==
    [j \in 1 .. n * GenVehicleCount |->
        VehicleDto(GenVehicleId(((j - 1) % GenVehicleCount) + 1), 85500, dc, 32500,
                   ScenarioStart + ((j - 1) \div GenVehicleCount) * MinuteMs)]

GenMeterBatch(n, ac) ==
    [j \in 1 .. n * GenVehicleCount |->
        MeterDto(GenMeterId(((j - 1) % GenVehicleCount) + 1), ac, 240500,
                 ScenarioStart + ((j - 1) \div GenVehicleCount) * MinuteMs)]

\* the tables after the generator's run: its meter batch and then its vehicle
\* batch were committed
InitQuickstart ==
    \E n \in GenIntervals, dc \in GenDcs, ac \in GenAcs :
        LET vb == GenVehicleBatch(n, dc)
            mb == GenMeterBatch(n, ac)
            vRows == InsertedRows("vehicle", vb, 1)
            mRows == InsertedRows("meter", mb, 1)
            mEntry == [cid |-> 1, class |-> "meter", data |-> mb,
                       ids |-> {h.id : h \in mRows}]
            vEntry == [cid |-> 2, class |-> "vehicle", data |-> vb,
                       ids |-> {h.id : h \in vRows}]
            lastOf(class, b, k) ==
                b[CHOOSE j \in 1 .. Len(b) :
                     /\ KeyOf(class, b[j]) = k
                     /\ \A o \in j + 1 .. Len(b) : KeyOf(class, b[o]) # k]
            named(class, b) == {KeyOf(class, b[j]) : j \in 1 .. Len(b)}
        IN /\ history = [c \in {"meter", "vehicle"} |->
                            IF c = "vehicle" THEN vRows ELSE mRows]
           /\ currentStatus = [c \in {"meter", "vehicle"} |->
                 [k \in DeviceIds \cup GenIds |->
                    IF c = "vehicle" /\ k \in named("vehicle", vb)
                    THEN StatusRow("vehicle", lastOf("vehicle", vb, k))
                    ELSE IF c = "meter" /\ k \in named("meter", mb)
                    THEN StatusRow("meter", lastOf("meter", mb, k))
                    ELSE NoRow]]
           /\ historySeq = [c \in {"meter", "vehicle"} |-> n * GenVehicleCount + 1]
           /\ commitLog = <<mEntry, vEntry>>
           /\ createdAt = [c \in {"meter", "vehicle"} |->
                 [k \in DeviceIds \cup GenIds |->
                    IF c = "vehicle" /\ k \in named("vehicle", vb) THEN {2}
                    ELSE IF c = "meter" /\ k \in named("meter", mb) THEN {1}
                    ELSE {}]]
           /\ started = 2
           /\ call = [p \in Procs |-> IdleCall]
           /\ inUse = 0
           /\ snap = [p \in Procs |->
                         [currentStatus |-> [c \in {"meter", "vehicle"} |->
                                               [k \in DeviceIds |-> NoRow]],
                          history |-> [c \in {"meter", "vehicle"} |-> {}],
                          logLen |-> 0]]
           /\ qry = IdleQuery
           /\ queries = 0

\* step 4 of the quick start: GET /v1/analytics/performance/VEHICLE-001
GetPerformanceOfFirstVehicle ==
    \E now \in Nows :
        /\ qry.pc \in {"idle", "done"}
        /\ queries < MaxQueries
        /\ queries' = queries + 1
        /\ qry' = [IdleQuery EXCEPT !.pc = "vehicle", !.vehicleId = GenVehicleId(1),
                                    !.now = now, !.oneDayAgo = now - DayMs]
        /\ UNCHANGED <<currentStatus, history, historySeq, call, inUse, started,
                       commitLog, createdAt, snap>>

NextQuickstart ==
    \/ GetPerformanceOfFirstVehicle
    \/ QueryVehicle
    \/ QueryMeter

SpecQuickstart == InitQuickstart /\ [][NextQuickstart]_vars

\* ------------------------------------------------------------------- claims

Classes == {"meter", "vehicle"}

KeyOfRow(class, h) == IF class = "meter" THEN h.meterId ELSE h.vehicleId

\* the History rows of one device
RowsOf(table, class, k) == {h \in table : KeyOfRow(class, h) = k}

\* the History row inserted last
Latest(rows) == CHOOSE h \in rows : \A o \in rows : o.id <= h.id

\* the Current-State row that was written together with a History row
AsStatus(class, h) ==
    IF class = "meter"
    THEN [meterId |-> h.meterId, kwhConsumedAc |-> h.kwhConsumedAc,
          voltage |-> h.voltage, lastUpdated |-> h.timestamp]
    ELSE [vehicleId |-> h.vehicleId, soc |-> h.soc,
          kwhDeliveredDc |-> h.kwhDeliveredDc, batteryTemp |-> h.batteryTemp,
          lastUpdated |-> h.timestamp]

\* the committed transactions from position n on that wrote device k of a class
LaterCommits(n, class, k) ==
    {j \in n .. Len(commitLog) :
        /\ commitLog[j].class = class
        /\ \E i \in 1 .. Len(commitLog[j].data) : KeyOf(class, commitLog[j].data[i]) = k}

LogCids == {commitLog[j].cid : j \in 1 .. Len(commitLog)}

\* C1 -- dual-write atomicity: in every state, whatever the ingest calls in
\* flight have done so far, a reader of the committed tables finds both halves
\* of an ingest or neither: a device has a Current-State row exactly if it has
\* History rows, and the row holds the values of the device's newest History
\* row.
DualWriteAtomicity ==
    \A class \in Classes : \A k \in DeviceIds :
        LET rows == RowsOf(history[class], class, k)
        IN IF rows = {}
           THEN currentStatus[class][k] = NoRow
           ELSE currentStatus[class][k] = AsStatus(class, Latest(rows))

\* C1 witness: a transaction has upserted a new value for a device and not yet
\* committed, while an earlier ingest of that device is visible
HalfDoneIngest ==
    \E p \in Procs : \E k \in DeviceIds :
        /\ call[p].pc = "insert"
        /\ call[p].pendStatus[k] # NoRow
        /\ currentStatus[ClassOf(call[p].op)][k] # NoRow
        /\ currentStatus[ClassOf(call[p].op)][k] # call[p].pendStatus[k]

\* C2 -- atomicity on failure: when an ingest call has ended with an error,
\* the Current-State row and the History rows of every device named in the
\* call are those of the moment the call started (for the devices that no
\* other call committed in between).
FailedCallChangesNothing ==
    \A p \in Procs :
        (call[p].pc = "done" /\ call[p].result = "error") =>
            LET class == ClassOf(call[p].op)
            IN \A i \in 1 .. Len(call[p].data) :
                  LET k == KeyOf(class, call[p].data[i])
                  IN LaterCommits(snap[p].logLen + 1, class, k) = {} =>
                        /\ currentStatus[class][k] = snap[p].currentStatus[class][k]
                        /\ RowsOf(history[class], class, k)
                             = RowsOf(snap[p].history[class], class, k)

\* C2 witness: a batch whose commit failed has ended with an error, after
\* another ingest of the same class was committed
FailedCommitReturned ==
    \E p \in Procs :
        /\ call[p].pc = "done"
        /\ call[p].result = "error"
        /\ call[p].failedAt = "commit"
        /\ Len(call[p].data) >= 2
        /\ history[ClassOf(call[p].op)] # {}

\* C3 -- batch all-or-nothing on invalid input: a meter batch that holds a
\* record with a negative voltage is rejected as a whole; it never ends with
\* success and none of its records is committed.
InvalidMeterBatchRejected ==
    \A p \in Procs :
        (/\ call[p].op = "meterBatch"
         /\ \E i \in 1 .. Len(call[p].data) : call[p].data[i].voltage < 0)
        => /\ call[p].result # "success"
           /\ call[p].cid \notin LogCids

\* the position of a call's transaction in the commit log (0: not committed)
LogIndex(cid) ==
    IF cid \in LogCids
    THEN CHOOSE j \in 1 .. Len(commitLog) : commitLog[j].cid = cid
    ELSE 0

\* a single ingest has returned success and no ingest of its device was
\* committed after it
FreshlyIngested(p) ==
    /\ call[p].pc = "done"
    /\ call[p].result = "success"
    /\ call[p].op \in {"meter", "vehicle"}
    /\ LaterCommits(LogIndex(call[p].cid) + 1, ClassOf(call[p].op),
                    KeyOf(ClassOf(call[p].op), call[p].data[1])) = {}

\* C4 as stated -- Current-State freshness: after a successful ingest of record
\* r for device D, and before another ingest for D commits, the Current-State
\* row of D holds exactly r's field values, and lastUpdated is r's timestamp.
FreshExactValues ==
    \A p \in Procs :
        FreshlyIngested(p) =>
            LET d == call[p].data[1]
            IN IF call[p].op = "meter"
               THEN currentStatus["meter"][d.meterId] =
                       [meterId |-> d.meterId, kwhConsumedAc |-> d.kwhConsumedAc,
                        voltage |-> d.voltage, lastUpdated |-> d.timestamp]
               ELSE currentStatus["vehicle"][d.vehicleId] =
                       [vehicleId |-> d.vehicleId, soc |-> d.soc,
                        kwhDeliveredDc |-> d.kwhDeliveredDc,
                        batteryTemp |-> d.batteryTemp, lastUpdated |-> d.timestamp]

\* C4 as amended: the row holds r's field values rounded to the scale of their
\* columns (energy to 4 decimals, voltage, soc and temperature to 2), and
\* lastUpdated is r's observation timestamp.
FreshScaledValues ==
    \A p \in Procs :
        FreshlyIngested(p) =>
            LET d == call[p].data[1]
            IN IF call[p].op = "meter"
               THEN currentStatus["meter"][d.meterId] =
                       [meterId |-> d.meterId,
                        kwhConsumedAc |-> ToScale(d.kwhConsumedAc),
                        voltage |-> ToScale(d.voltage),
                        lastUpdated |-> d.timestamp]
               ELSE currentStatus["vehicle"][d.vehicleId] =
                       [vehicleId |-> d.vehicleId,
                        soc |-> ToScale(d.soc),
                        kwhDeliveredDc |-> ToScale(d.kwhDeliveredDc),
                        batteryTemp |-> ToScale(d.batteryTemp),
                        lastUpdated |-> d.timestamp]

\* C4 witness: the second ingest of a meter returned success; its record has
\* 0.00225 kWh and 24.055 V, the row holds 0.0023 kWh and 24.06 V
FreshRoundedRow ==
    \E p \in Procs :
        /\ FreshlyIngested(p)
        /\ call[p].data[1] = mB
        /\ LogIndex(call[p].cid) = 2
        /\ commitLog[1].class = "meter"
        /\ KeyOf("meter", commitLog[1].data[1]) = "V-1"
        /\ currentStatus["meter"]["V-1"].kwhConsumedAc = 230
        /\ currentStatus["meter"]["V-1"].voltage = 24060
        /\ currentStatus["meter"]["V-1"].lastUpdated = 2

\* the History rows a committed transaction inserted
EntryRows(e) == {h \in history[e.class] : h.id \in e.ids}

\* the History tables hold one row per record of every committed call, and
\* nothing else; the calls that returned success are the committed ones
HistoryIsLog ==
    /\ \A class \in Classes : \A h \in history[class] :
          \E j \in 1 .. Len(commitLog) :
              commitLog[j].class = class /\ h.id \in commitLog[j].ids
    /\ \A j \in 1 .. Len(commitLog) :
          LET e == commitLog[j]
          IN /\ Cardinality(e.ids) = Len(e.data)
             /\ \E first \in 1 .. historySeq[e.class] :
                   EntryRows(e) =
                      {HistoryRow(e.class, e.data[k], first + k - 1) : k \in 1 .. Len(e.data)}
             /\ \A o \in 1 .. Len(commitLog) :
                   (o # j /\ commitLog[o].class = e.class) => commitLog[o].ids \cap e.ids = {}
    /\ \A p \in Procs :
          call[p].pc = "done" =>
              ((call[p].result = "success" /\ Len(call[p].data) > 0)
                  <=> call[p].cid \in LogCids)

\* C5 -- History is append-only and complete: in every state the History rows
\* of a device are, one for one, the records of the device in the ingest calls
\* that succeeded (a batch with k records of a device adds k rows), and no step
\* changes or removes a row.
HistoryAppendOnlyComplete ==
    /\ []HistoryIsLog
    /\ [][\A class \in Classes : history[class] \subseteq history'[class]]_vars

\* C5 witness: a committed batch with three records of one device has three
\* rows of that device in the History
BatchRowsInHistory ==
    \E j \in 1 .. Len(commitLog) :
        /\ commitLog[j].data = <<vC, vA, vZ>>
        /\ Cardinality(EntryRows(commitLog[j])) = 3
        /\ Cardinality(RowsOf(history["vehicle"], "vehicle", "V-1")) >= 3

\* the record of device k that a committed transaction upserted last
LastRecordOf(e, k) ==
    LET i == CHOOSE n \in 1 .. Len(e.data) :
                 /\ KeyOf(e.class, e.data[n]) = k
                 /\ \A m \in n + 1 .. Len(e.data) : KeyOf(e.class, e.data[m]) # k
    IN e.data[i]

\* C6 -- last write wins by commit order: the Current-State row of a device is
\* the record of the ingest of that device that committed last (in a batch:
\* its last record of the device), whatever the observation timestamps are.
LastCommitWins ==
    \A class \in Classes : \A k \in DeviceIds :
        LET js == LaterCommits(1, class, k)
        IN IF js = {}
           THEN currentStatus[class][k] = NoRow
           ELSE LET j == CHOOSE x \in js : \A y \in js : y <= x
                IN currentStatus[class][k] = StatusRow(class, LastRecordOf(commitLog[j], k))

\* C6 witness: two ingest calls of one device have committed, the second with
\* the older record: lastUpdated of the row is below a timestamp in the
\* device's History
LastUpdatedMovedBack ==
    \E class \in Classes : \E k \in DeviceIds :
        /\ Cardinality(LaterCommits(1, class, k)) = 2
        /\ \E h \in RowsOf(history[class], class, k) :
              currentStatus[class][k].lastUpdated < h.timestamp
        /\ \A j \in LaterCommits(1, class, k) : Len(commitLog[j].data) = 1

\* C7 -- resource release on every exit path: an ingest call that has ended
\* holds no connection.
ConnectionReleasedOnExit ==
    \A p \in Procs : call[p].pc = "done" => ~call[p].conn

\* C8 -- a failed dual-write is never swallowed: once an upsert, the history
\* insert or the commit of a call has failed, the call ends with an error, and
\* before it ends rollbackTransaction was called and nothing the call wrote is
\* or becomes visible.
FailureSurfacesAfterRollback ==
    \A p \in Procs :
        call[p].failedAt \in {"upsert", "insert", "commit", "rollback"} =>
            /\ call[p].pc \in {"rollback", "release", "done"}
            /\ call[p].cid \notin LogCids
            /\ call[p].pc \in {"release", "done"} =>
                  /\ call[p].rolledBack
                  /\ call[p].outcome = "error"
                  /\ call[p].pendStatus = NoPending
                  /\ call[p].pendHistory = {}
            /\ call[p].pc = "done" => call[p].result = "error"

\* C8 witness: the history insert of a batch failed and the call has ended
\* with an error after the rollback
FailedInsertSurfaced ==
    \E p \in Procs :
        /\ call[p].pc = "done"
        /\ call[p].failedAt = "insert"
        /\ call[p].result = "error"
        /\ call[p].rolledBack
        /\ Len(call[p].data) >= 2

\* an analytics call has returned a Summary
SummaryReturned == qry.pc = "done" /\ qry.result.kind = "Summary"

\* C9 -- window correctness: when the vehicle has N History rows strictly
\* inside the window, M rows strictly outside it and none on its ends, the
\* Summary reports dataPointsAnalyzed = N >= 1 and the DC total of those N
\* rows, whatever M is and whatever rows other devices have.
WindowCountsInsideOnly ==
    SummaryReturned =>
        LET mine == RowsOf(qry.vSeen, "vehicle", qry.vehicleId)
            inside == {h \in mine : qry.now - DayMs < h.timestamp /\ h.timestamp < qry.now}
            outside == {h \in mine : h.timestamp < qry.now - DayMs \/ h.timestamp > qry.now}
        IN inside \cup outside = mine =>
              /\ Cardinality(inside) >= 1
              /\ qry.result.dataPointsAnalyzed = Cardinality(inside)
              /\ qry.result.totalEnergyDeliveredDc = SumDc(inside)

\* C9 witness: the vehicle has one row inside the window and one after it,
\* another vehicle has a row inside the window; the Summary counts one row
OneInsideOneOutside ==
    /\ SummaryReturned
    /\ qry.vehicleId = "V-1"
    /\ qry.now = DayMs + 1
    /\ {[vehicleId |-> h.vehicleId, timestamp |-> h.timestamp] : h \in qry.vSeen}
          = {[vehicleId |-> "V-1", timestamp |-> 2],
             [vehicleId |-> "V-2", timestamp |-> 2],
             [vehicleId |-> "V-1", timestamp |-> DayMs + 2]}
    /\ qry.result.dataPointsAnalyzed = 1
    /\ qry.result.totalEnergyDeliveredDc = 210

\* C10 -- the window is closed at both ends and the same for both streams: the
\* Summary's period is [now - 24 h, now], and exactly the rows of the
\* identifier that are neither before now - 24 h nor after now are counted, on
\* the vehicle side and on the meter side, so a row on either end is included.
WindowClosedBothEnds ==
    SummaryReturned =>
        LET start == qry.now - DayMs
            vIn == {h \in RowsOf(qry.vSeen, "vehicle", qry.vehicleId) :
                       ~(h.timestamp <= start - 1 \/ h.timestamp >= qry.now + 1)}
            mIn == {h \in RowsOf(qry.mSeen, "meter", qry.vehicleId) :
                       ~(h.timestamp <= start - 1 \/ h.timestamp >= qry.now + 1)}
        IN /\ qry.result.periodStart = start
           /\ qry.result.periodEnd = qry.now
           /\ qry.result.dataPointsAnalyzed = Cardinality(vIn)
           /\ qry.result.totalEnergyDeliveredDc = SumDc(vIn)
           /\ qry.result.totalEnergyConsumedAc = SumAc(mIn)

\* C10 witness: both streams have a row on each end of the window, the vehicle
\* stream one 1 ms before it and the meter stream one 1 ms after it; the
\* Summary counts the rows on the ends only
RowsOnBothEnds ==
    /\ SummaryReturned
    /\ qry.vehicleId = "V-1"
    /\ qry.now = DayMs + 1
    /\ {h.timestamp : h \in RowsOf(qry.vSeen, "vehicle", "V-1")} = {0, 1, DayMs + 1}
    /\ {h.timestamp : h \in RowsOf(qry.mSeen, "meter", "V-1")} = {1, DayMs + 1, DayMs + 2}
    /\ qry.result.periodStart = 1
    /\ qry.result.dataPointsAnalyzed = 2
    /\ qry.result.totalEnergyDeliveredDc = 400
    /\ qry.result.totalEnergyConsumedAc = 440

\* the rows of the queried identifier that the vehicle read found in the window
VehicleRowsInWindow ==
    {h \in RowsOf(qry.vSeen, "vehicle", qry.vehicleId) :
        qry.now - DayMs <= h.timestamp /\ h.timestamp <= qry.now}

\* the rows of the queried identifier in the meter History, in the window
MeterRowsInWindow(table) ==
    {h \in RowsOf(table, "meter", qry.vehicleId) :
        qry.now - DayMs <= h.timestamp /\ h.timestamp <= qry.now}

\* C11 -- not-found policy: an analytics call whose vehicle read found no row
\* of the identifier inside the window has ended right after that read with a
\* not-found error and never goes on to the meter read or to a Summary,
\* whatever the vehicle History holds outside the window and whatever the meter
\* History holds.
NotFoundWithoutVehicleRows ==
    (qry.pc \in {"meter", "done"} /\ VehicleRowsInWindow = {}) =>
        /\ qry.pc = "done"
        /\ qry.result.kind = "NotFound"
        /\ qry.result.vehicleId = qry.vehicleId

\* C11 witness: not-found for a vehicle whose only History row lies after the
\* window, while the meter History has rows of the identifier inside the window
NotFoundDespiteMeterRows ==
    /\ qry.pc = "done"
    /\ qry.result.kind = "NotFound"
    /\ qry.vehicleId = "V-1"
    /\ qry.now = DayMs + 1
    /\ {h.timestamp : h \in RowsOf(qry.vSeen, "vehicle", "V-1")} = {DayMs + 2}
    /\ MeterRowsInWindow(history["meter"]) # {}
    /\ commitLog[1].class = "meter"

\* C12 -- missing meter data degrades: an analytics call whose vehicle read
\* found rows in the window ends with a Summary, never with not-found; when the
\* meter read found no row of the identifier in the window, or an AC total of
\* zero, the Summary has totalEnergyConsumedAc = 0 and efficiencyRatio = 0;
\* when the AC total is positive, efficiencyRatio is the DC total divided by
\* the AC total, to the nearest ten-thousandth.
MissingMeterDataDegrades ==
    (qry.pc = "done" /\ VehicleRowsInWindow # {}) =>
        LET ac == SumAc(MeterRowsInWindow(qry.mSeen))
            dc == SumDc(VehicleRowsInWindow)
            e == qry.result.efficiencyRatio
        IN /\ qry.result.kind = "Summary"
           /\ qry.result.totalEnergyConsumedAc = ac
           /\ qry.result.totalEnergyDeliveredDc = dc
           /\ ac = 0 => e = 0
           /\ ac > 0 => /\ 2 * (e * ac - 10000 * dc) <= ac
                        /\ 2 * (10000 * dc - e * ac) <= ac

\* C12 witness: a Summary for V-2, whose meter has no History row at all while
\* the meter of V-1 has one inside the window: the AC total and the ratio are 0
SummaryWithoutMeterRows ==
    /\ SummaryReturned
    /\ qry.vehicleId = "V-2"
    /\ RowsOf(qry.mSeen, "meter", "V-2") = {}
    /\ RowsOf(qry.mSeen, "meter", "V-1") # {}
    /\ qry.result.dataPointsAnalyzed = 1
    /\ qry.result.totalEnergyDeliveredDc = 1000
    /\ qry.result.totalEnergyConsumedAc = 0
    /\ qry.result.efficiencyRatio = 0

\* how far the DC total of a Summary falls short of its AC total
Shortfall(r) == r.totalEnergyConsumedAc - r.totalEnergyDeliveredDc

\* the band of a Summary's unrounded ratio DC / AC, lower bounds inclusive: the
\* ratio is at least 0.90, 0.85, 0.75 exactly if the DC total falls short of
\* the AC total by at most a tenth, three twentieths, a quarter of it; without
\* AC energy the ratio is 0
BandOf(r) ==
    IF r.totalEnergyConsumedAc = 0 THEN "CRITICAL"
    ELSE IF Shortfall(r) <= r.totalEnergyConsumedAc \div 10 THEN "EXCELLENT"
    ELSE IF Shortfall(r) <= (3 * r.totalEnergyConsumedAc) \div 20 THEN "NORMAL"
    ELSE IF Shortfall(r) <= r.totalEnergyConsumedAc \div 4 THEN "WARNING"
    ELSE "CRITICAL"

SampleCountGate ==
    SummaryReturned =>
        /\ qry.result.dataPointsAnalyzed = Cardinality(VehicleRowsInWindow)
        /\ (qry.result.healthStatus = "INSUFFICIENT_DATA")
              <=> (Cardinality(VehicleRowsInWindow) < 10)

\* C14 witness: 9 vehicle samples and 11 meter samples in the window, a ratio
\* above 1: INSUFFICIENT_DATA
NineSamplesInsufficient ==
    /\ SummaryReturned
    /\ Cardinality(VehicleRowsInWindow) = 9
    /\ Cardinality(MeterRowsInWindow(qry.mSeen)) = 11
    /\ qry.result.totalEnergyDeliveredDc > qry.result.totalEnergyConsumedAc
    /\ qry.result.totalEnergyConsumedAc > 0
    /\ qry.result.healthStatus = "INSUFFICIENT_DATA"

\* the end-to-end scenario: 10 vehicle and 10 meter records of V-1 at T,
\* T + 1 min, ..., T + 9 min with DC values summing to 1052.134 kWh and AC
\* values summing to 1255.432 kWh, and a Summary for V-1 computed at T + 10 min
ScenarioSummary ==
    /\ SummaryReturned
    /\ qry.vehicleId = "V-1"
    /\ qry.now = ScenarioStart + 10 * MinuteMs
    /\ {h.timestamp : h \in RowsOf(qry.vSeen, "vehicle", "V-1")}
          = {ScenarioStart + k * MinuteMs : k \in 0 .. 9}
    /\ {h.timestamp : h \in RowsOf(qry.mSeen, "meter", "V-1")}
          = {ScenarioStart + k * MinuteMs : k \in 0 .. 9}
    /\ Cardinality(RowsOf(qry.vSeen, "vehicle", "V-1")) = 10
    /\ Cardinality(RowsOf(qry.mSeen, "meter", "V-1")) = 10
    /\ SumDc(RowsOf(qry.vSeen, "vehicle", "V-1")) = 105213400
    /\ SumAc(RowsOf(qry.mSeen, "meter", "V-1")) = 125543200

\* C15 as stated -- the scenario's Summary has efficiencyRatio 0.8383, 10 data
\* points and healthStatus WARNING.
ScenarioRatio8383 ==
    ScenarioSummary =>
        /\ qry.result.efficiencyRatio = 8383
        /\ qry.result.dataPointsAnalyzed = 10
        /\ qry.result.healthStatus = "WARNING"

\* C15 as amended: the scenario's Summary has efficiencyRatio 0.8381 (1052.134 /
\* 1255.432 = 0.83806..., rounded to 4 decimals), 10 data points and
\* healthStatus WARNING.
ScenarioRatio8381 ==
    ScenarioSummary =>
        /\ qry.result.efficiencyRatio = 8381
        /\ qry.result.totalEnergyDeliveredDc = 105213400
        /\ qry.result.totalEnergyConsumedAc = 125543200
        /\ qry.result.dataPointsAnalyzed = 10
        /\ qry.result.healthStatus = "WARNING"

\* C15 witness: the scenario's Summary was returned
ScenarioSummaryReturned ==
    /\ ScenarioSummary
    /\ qry.result.efficiencyRatio = 8381
    /\ qry.result.healthStatus = "WARNING"

\* a call has returned success for the body that the transaction committed
\* just before it had applied, and it started after that commit
RetryOf(p) ==
    LET j == LogIndex(call[p].cid)
    IN /\ call[p].pc = "done"
       /\ call[p].result = "success"
       /\ j >= 2
       /\ snap[p].logLen = j - 1
       /\ commitLog[j - 1].class = ClassOf(call[p].op)
       /\ commitLog[j - 1].data = call[p].data

\* the History rows that hold the values of record d
CopiesOf(rows, class, d) == {h \in rows : AsStatus(class, h) = StatusRow(class, d)}

\* C16 -- retry semantics: when the identical body was applied twice, both
\* times with success, the Current-State rows are those after the first
\* application (for the devices no later call committed), the second
\* application added one new History row per record, and the rows of the two
\* applications hold every record of the body twice.
RetryReplacesStateDuplicatesHistory ==
    \A p \in Procs :
        RetryOf(p) =>
            LET class == ClassOf(call[p].op)
                j == LogIndex(call[p].cid)
                data == call[p].data
                second == EntryRows(commitLog[j])
                both == EntryRows(commitLog[j - 1]) \cup second
            IN /\ \A k \in DeviceIds :
                     LaterCommits(j + 1, class, k) = {} =>
                        currentStatus[class][k] = snap[p].currentStatus[class][k]
               /\ second \cap snap[p].history[class] = {}
               /\ Cardinality(second) = Len(data)
               /\ \A i \in 1 .. Len(data) :
                     Cardinality(CopiesOf(both, class, data[i]))
                        = 2 * Cardinality({n \in 1 .. Len(data) :
                                StatusRow(class, data[n]) = StatusRow(class, data[i])})

\* C16 witness: the vehicle batch of three records was applied twice; the row
\* of V-1 is the batch's last record and the History has six rows
BatchAppliedTwice ==
    \E p \in Procs :
        /\ RetryOf(p)
        /\ call[p].data = <<vC, vA, vZ>>
        /\ Len(commitLog) = 2
        /\ currentStatus["vehicle"]["V-1"] = StatusRow("vehicle", vZ)
        /\ Cardinality(history["vehicle"]) = 6
        /\ Cardinality(CopiesOf(history["vehicle"], "vehicle", vA)) = 2

\* a call that has not reached its commit, or that was stopped before it
NotCommitted(p) ==
    \/ call[p].pc \in {"connect", "begin", "upsert", "insert", "commit"}
    \/ call[p].pc \in {"rollback", "release", "done"} /\ call[p].failedAt # "none"

\* C19 -- cancellation safety: at every point of an ingest call before its
\* commit, and after the call was stopped at such a point, nothing the call
\* wrote is visible: its transaction is not committed, none of its History rows
\* is in the table, and the Current-State row and the History rows of its
\* devices are those of the moment the call started (for the devices that no
\* other call committed in between).
StoppedCallLeavesNothing ==
    \A p \in Procs :
        NotCommitted(p) =>
            LET class == ClassOf(call[p].op)
            IN /\ call[p].cid \notin LogCids
               /\ call[p].pendHistory \cap history[class] = {}
               /\ \A i \in 1 .. Len(call[p].data) :
                     LET k == KeyOf(class, call[p].data[i])
                     IN LaterCommits(snap[p].logLen + 1, class, k) = {} =>
                           /\ currentStatus[class][k] = snap[p].currentStatus[class][k]
                           /\ RowsOf(history[class], class, k)
                                = RowsOf(snap[p].history[class], class, k)

\* C19 witness: a batch was stopped between its first and its second upsert,
\* on top of an earlier ingest of the same class; the tables are those of its
\* start
StoppedBetweenUpserts ==
    \E p \in Procs :
        /\ call[p].pc = "done"
        /\ call[p].failedAt = "upsert"
        /\ call[p].i = 2
        /\ Len(call[p].data) >= 2
        /\ snap[p].history[ClassOf(call[p].op)] # {}
        /\ currentStatus = snap[p].currentStatus
        /\ history = snap[p].history

\* the transaction of a call that returned success is in the commit log with
\* the call's records, one History row per record is in the table, and the
\* Current-State row of each of its devices is the call's last record of the
\* device unless a later transaction wrote the device
SuccessIsCommitted ==
    \A p \in Procs :
        (call[p].result = "success" /\ Len(call[p].data) > 0) =>
            LET class == ClassOf(call[p].op)
                j == LogIndex(call[p].cid)
            IN /\ j > 0
               /\ commitLog[j].class = class
               /\ commitLog[j].data = call[p].data
               /\ Cardinality(EntryRows(commitLog[j])) = Len(call[p].data)
               /\ \A i \in 1 .. Len(call[p].data) :
                     CopiesOf(EntryRows(commitLog[j]), class, call[p].data[i]) # {}
               /\ \A i \in 1 .. Len(call[p].data) :
                     LET k == KeyOf(class, call[p].data[i])
                     IN LaterCommits(j + 1, class, k) = {} =>
                           currentStatus[class][k]
                              = StatusRow(class, LastRecordOf(commitLog[j], k))

\* C20 -- a success confirmation implies a committed dual-write: a step that
\* returns success for a non-empty ingest is taken only when the transaction of
\* the call is already committed, and in every state after it the call's
\* History rows and Current-State update are in the committed tables.
SuccessOnlyAfterCommit ==
    /\ []SuccessIsCommitted
    /\ [][\A p \in Procs :
            (/\ call'[p].result = "success"
             /\ call[p].result # "success"
             /\ Len(call'[p].data) > 0)
            => /\ call'[p].cid \in LogCids
               /\ \A class \in Classes : history'[class] = history[class]
               /\ currentStatus' = currentStatus]_vars

\* C20 witness: the meter batch of four records has returned success; its four
\* rows are in the History and the row of V-1 is its last record of V-1
BatchConfirmed ==
    \E p \in Procs :
        /\ call[p].pc = "done"
        /\ call[p].result = "success"
        /\ call[p].data = <<mE, mC, mA, mD>>
        /\ Cardinality(EntryRows(commitLog[LogIndex(call[p].cid)])) = 4
        /\ currentStatus["meter"]["V-1"] = StatusRow("meter", mD)
        /\ currentStatus["meter"]["V-2"] = StatusRow("meter", mE)

\* a single-record body that breaks a constraint on a number or whose
\* timestamp is no date
BreaksConstraint(op, d) ==
    IF op = "meter"
    THEN d.kwhConsumedAc < 0 \/ d.voltage < 0 \/ d.timestamp = NaNTime
    ELSE d.soc < 0 \/ d.soc > 100000 \/ d.kwhDeliveredDc < 0 \/ d.timestamp = NaNTime

EmptyIdentifierRejected ==
    /\ \A p \in Procs :
          (call[p].op \in {"meter", "vehicle"}
             /\ KeyOf(ClassOf(call[p].op), call[p].data[1]) = "")
          => call[p].result # "success"
    /\ \A class \in Classes :
          /\ currentStatus[class][""] = NoRow
          /\ RowsOf(history[class], class, "") = {}

\* the device identifiers a call names, taken as keys of one class of tables
NamedIn(p, class) ==
    IF call[p].op # "none" /\ ClassOf(call[p].op) = class
    THEN {KeyOf(class, call[p].data[i]) : i \in 1 .. Len(call[p].data)}
    ELSE {}

\* C21 -- per-device independence: at every point of an ingest call and after
\* it ended, with success or with a failure, the Current-State row and the
\* History rows of every device the call does not name are those of the moment
\* the call started; the tables of the other class count as not named, also
\* for a device whose identifier the call names.
IngestTouchesNamedOnly ==
    call["h1"].pc # "idle" =>
        \A class \in Classes : \A k \in DeviceIds :
            k \notin NamedIn("h1", class) =>
                /\ currentStatus[class][k] = snap["h1"].currentStatus[class][k]
                /\ RowsOf(history[class], class, k)
                     = RowsOf(snap["h1"].history[class], class, k)

\* C21 witness: a meter ingest of "V-1" succeeded while the vehicle tables held
\* rows of the vehicles "V-1" and "V-2"; the call wrote the meter row of "V-1"
\* and left the vehicle rows and the vehicle History as they were
MeterIngestBesideVehicleRow ==
    /\ call["h1"].pc = "done"
    /\ call["h1"].result = "success"
    /\ call["h1"].op = "meter"
    /\ NamedIn("h1", "meter") = {"V-1"}
    /\ currentStatus["meter"]["V-1"] # snap["h1"].currentStatus["meter"]["V-1"]
    /\ currentStatus["vehicle"]["V-1"] # NoRow
    /\ currentStatus["vehicle"]["V-2"] # NoRow
    /\ currentStatus["vehicle"] = snap["h1"].currentStatus["vehicle"]
    /\ history["vehicle"] = snap["h1"].history["vehicle"]

\* the outcome of an analytics call that ended is the one its two History reads
\* give: not-found exactly if the vehicle read found no row in the window,
\* otherwise a Summary of the rows read
OutcomeFromHistory ==
    qry.pc = "done" =>
        IF VehicleRowsInWindow = {}
        THEN qry.result.kind = "NotFound"
        ELSE /\ qry.result.kind = "Summary"
             /\ qry.result.dataPointsAnalyzed = Cardinality(VehicleRowsInWindow)
             /\ qry.result.totalEnergyDeliveredDc = SumDc(VehicleRowsInWindow)
             /\ qry.result.totalEnergyConsumedAc = SumAc(MeterRowsInWindow(qry.mSeen))

\* C22 -- analytics is read-only: no step of an analytics call changes a
\* Current-State row, a History row or a History sequence, whether the call
\* ends with a Summary or with not-found; and its outcome is the one the two
\* History reads give, whatever the Current-State tables hold.
AnalyticsReadOnly ==
    /\ []OutcomeFromHistory
    /\ [][qry' # qry => UNCHANGED <<currentStatus, history, historySeq>>]_vars

\* C22 witness: a Summary of two samples for a vehicle whose Current-State row
\* carries an observation time before the window; the tables are those the
\* ingest left
SummaryBesideStaleStatus ==
    /\ SummaryReturned
    /\ qry.result.dataPointsAnalyzed = 2
    /\ currentStatus["vehicle"][qry.vehicleId] = StatusRow("vehicle", vZ)
    /\ currentStatus["vehicle"][qry.vehicleId].lastUpdated < qry.oneDayAgo
    /\ Cardinality(history["vehicle"]) = 3

\* both handlers ingested one record of the same meter and returned success;
\* the meter had no row when either call started, and each call started before
\* the other one committed
ConcurrentFirstIngests ==
    /\ \A p \in Procs :
          /\ call[p].pc = "done"
          /\ call[p].result = "success"
          /\ call[p].op = "meter"
          /\ snap[p].currentStatus["meter"][call[p].data[1].meterId] = NoRow
    /\ call["h1"].data[1].meterId = call["h2"].data[1].meterId
    /\ snap["h1"].logLen < LogIndex(call["h2"].cid)
    /\ snap["h2"].logLen < LogIndex(call["h1"].cid)

\* C23 -- uniqueness of Current-State: in every state a Current-State table
\* holds at most one row per device identifier, and a key has a row exactly if
\* one was inserted.  After two concurrent first ingests of one device that
\* both returned success, the device has exactly one row, inserted by one of
\* the two calls, and each call has its own History row in the table.
OneRowPerDevice ==
    /\ \A class \in Classes : \A k \in DeviceIds :
          /\ Cardinality(createdAt[class][k]) <= 1
          /\ currentStatus[class][k] # NoRow <=> createdAt[class][k] # {}
    /\ ConcurrentFirstIngests =>
          LET k == call["h1"].data[1].meterId
              e1 == commitLog[LogIndex(call["h1"].cid)]
              e2 == commitLog[LogIndex(call["h2"].cid)]
          IN /\ Cardinality(createdAt["meter"][k]) = 1
             /\ createdAt["meter"][k] \subseteq {call["h1"].cid, call["h2"].cid}
             /\ Cardinality(EntryRows(e1)) = 1
             /\ Cardinality(EntryRows(e2)) = 1
             /\ EntryRows(e1) \cap EntryRows(e2) = {}
             /\ EntryRows(e1) \cup EntryRows(e2) \subseteq RowsOf(history["meter"], "meter", k)

\* C23 witness: both handlers ingested the unknown meter "V-1" at the same
\* time and returned success; one row, two History rows
RaceLeftOneRow ==
    /\ ConcurrentFirstIngests
    /\ call["h1"].data = <<mB>>
    /\ currentStatus["meter"]["V-1"] = StatusRow("meter", mB)
    /\ Cardinality(createdAt["meter"]["V-1"]) = 1
    /\ Cardinality(RowsOf(history["meter"], "meter", "V-1")) = 2

\* the transaction that committed the first write of device k of a class
FirstCommitOf(class, k) ==
    commitLog[CHOOSE j \in LaterCommits(1, class, k) :
                 \A o \in LaterCommits(1, class, k) : j <= o]

\* created_at of every Current-State row is the time of the transaction that
\* committed the device's first record
CreatedByFirstIngest ==
    \A class \in Classes : \A k \in DeviceIds :
        IF LaterCommits(1, class, k) = {}
        THEN createdAt[class][k] = {}
        ELSE createdAt[class][k] = {FirstCommitOf(class, k).cid}

\* C24 -- creation timestamp preserved: created_at of a Current-State row is
\* set by the first successful ingest of the device, and no later step changes
\* it: a later ingest of the device overwrites the record fields and
\* lastUpdated (the row is the last committed record) and leaves created_at.
CreationTimePreserved ==
    /\ []CreatedByFirstIngest
    /\ [][\A class \in Classes : \A k \in DeviceIds :
             createdAt[class][k] # {} => createdAt'[class][k] = createdAt[class][k]]_vars

\* C24 witness: a second ingest of the vehicle "V-1" committed and replaced the
\* row of the first one; created_at is still the time of the first
SecondIngestKeptCreationTime ==
    /\ Len(commitLog) = 2
    /\ LaterCommits(1, "vehicle", "V-1") = {1, 2}
    /\ createdAt["vehicle"]["V-1"] = {commitLog[1].cid}
    /\ currentStatus["vehicle"]["V-1"]
         = StatusRow("vehicle", LastRecordOf(commitLog[2], "V-1"))
    /\ currentStatus["vehicle"]["V-1"]
         # StatusRow("vehicle", LastRecordOf(commitLog[1], "V-1"))

\* the positions of a call's records that name device k
RecordsOf(p, k) ==
    {i \in 1 .. Len(call[p].data) : KeyOf(ClassOf(call[p].op), call[p].data[i]) = k}

\* C25 -- batch with several records of one device: after a batch call
\* returned success, the Current-State row of every device D it names equals
\* the record of D that stands last in the batch, whatever the observation
\* timestamps are, and the History holds as many more rows of D than at the
\* call's start as the batch has records of D.
BatchLastRecordWins ==
    (/\ call["h1"].pc = "done"
     /\ call["h1"].result = "success"
     /\ call["h1"].op \in {"meterBatch", "vehicleBatch"}) =>
        LET class == ClassOf(call["h1"].op)
        IN \A k \in NamedIn("h1", class) :
              LET last == CHOOSE i \in RecordsOf("h1", k) :
                              \A o \in RecordsOf("h1", k) : o <= i
              IN /\ currentStatus[class][k] = StatusRow(class, call["h1"].data[last])
                 /\ Cardinality(RowsOf(history[class], class, k))
                      = Cardinality(RowsOf(snap["h1"].history[class], class, k))
                         + Cardinality(RecordsOf("h1", k))

\* C25 witness: the batch of three records of the vehicle "V-1" whose last
\* record carries the oldest timestamp returned success; the row is that
\* record and the History has three rows more
BatchOfThreeForOneDevice ==
    /\ call["h1"].pc = "done"
    /\ call["h1"].result = "success"
    /\ call["h1"].data = <<vC, vA, vZ>>
    /\ Cardinality(RecordsOf("h1", "V-1")) = 3
    /\ currentStatus["vehicle"]["V-1"] = StatusRow("vehicle", vZ)
    /\ vZ.timestamp < vA.timestamp /\ vA.timestamp < vC.timestamp
    /\ Cardinality(RowsOf(history["vehicle"], "vehicle", "V-1"))
         = Cardinality(RowsOf(snap["h1"].history["vehicle"], "vehicle", "V-1")) + 3

\* the steps of one call in the order of the method: connect, startTransaction,
\* the upserts, the insert, commit or rollback, release
StepOrder ==
    {<<"idle", "connect">>, <<"idle", "done">>, <<"done", "connect">>,
     <<"connect", "begin">>, <<"connect", "done">>,
     <<"begin", "upsert">>, <<"begin", "done">>,
     <<"upsert", "insert">>, <<"upsert", "rollback">>,
     <<"insert", "commit">>, <<"insert", "rollback">>,
     <<"commit", "release">>, <<"commit", "rollback">>,
     <<"rollback", "release">>, <<"release", "done">>}

\* a batch call with records
BatchCall(p) == call[p].op \in {"meterBatch", "vehicleBatch"} /\ Len(call[p].data) > 0

\* the log entries of a call's transaction
CommitsOf(p) == {j \in 1 .. Len(commitLog) : commitLog[j].cid = call[p].cid}

\* where a batch call stands, its transaction is not begun, open, committed or
\* rolled back, and the tables show all of its writes or none
OneTransactionState ==
    BatchCall("h1") =>
        LET c == call["h1"]
            class == ClassOf(c.op)
            untouched == /\ currentStatus = snap["h1"].currentStatus
                         /\ history = snap["h1"].history
        IN /\ Cardinality(CommitsOf("h1")) <= 1
           /\ c.pc \in {"connect", "begin", "upsert", "insert", "commit"} =>
                 /\ CommitsOf("h1") = {}
                 /\ ~c.rolledBack
                 /\ untouched
           /\ c.pc = "rollback" => CommitsOf("h1") = {} /\ c.failedAt # "none"
           /\ (c.pc \in {"release", "done"} /\ c.failedAt \notin {"connect", "begin"}) =>
                 \/ /\ Cardinality(CommitsOf("h1")) = 1
                    /\ ~c.rolledBack
                    /\ c.failedAt = "none"
                    /\ history[class] = snap["h1"].history[class]
                          \cup EntryRows(commitLog[LogIndex(c.cid)])
                    /\ Cardinality(EntryRows(commitLog[LogIndex(c.cid)])) = Len(c.data)
                 \/ /\ CommitsOf("h1") = {}
                    /\ c.rolledBack
                    /\ c.failedAt # "none"
                    /\ untouched
           /\ (c.pc = "done" /\ c.failedAt \in {"connect", "begin"}) =>
                 CommitsOf("h1") = {} /\ ~c.rolledBack /\ untouched

\* C26 -- one transaction per batch: a batch call with records takes its steps
\* in the order connect, begin, upserts, insert, then commit or rollback, then
\* release, each call beginning once; while the transaction is open none of
\* its writes is in the tables; it ends committed once (all rows of the batch
\* visible, no rollback, no failed step) or rolled back (nothing visible, no
\* commit), never both.
OneTransactionPerBatch ==
    /\ []OneTransactionState
    /\ [][(BatchCall("h1")' /\ call'["h1"].pc # call["h1"].pc) =>
            /\ <<call["h1"].pc, call'["h1"].pc>> \in StepOrder
            /\ call'["h1"].cid = call["h1"].cid <=> call["h1"].pc \notin {"idle", "done"}]_vars

\* C26 witness: a batch of four records whose commit failed was rolled back and
\* released on top of an earlier committed call; none of its rows is visible
BatchRolledBackAfterCommitFailure ==
    /\ BatchCall("h1")
    /\ Len(call["h1"].data) = 4
    /\ call["h1"].pc = "done"
    /\ call["h1"].failedAt = "commit"
    /\ call["h1"].rolledBack
    /\ CommitsOf("h1") = {}
    /\ Len(commitLog) = 1
    /\ history = snap["h1"].history

\* the History table of a class as it stood after the first n commits
HistoryAt(n, class) ==
    UNION {EntryRows(commitLog[j]) : j \in {i \in 1 .. n : commitLog[i].class = class}}

\* the rows of the queried identifier in a History table, in the window
InWindow(table, class) ==
    {h \in RowsOf(table, class, qry.vehicleId) :
        qry.now - DayMs <= h.timestamp /\ h.timestamp <= qry.now}

\* C27 -- snapshot consistency of the two range reads: the sample count, the
\* DC total and the AC total of every Summary are those of one committed state
\* of the two History tables, the state after some number of commits.
SummaryFromOneCommittedState ==
    SummaryReturned =>
        \E n \in 0 .. Len(commitLog) :
            /\ qry.result.dataPointsAnalyzed
                 = Cardinality(InWindow(HistoryAt(n, "vehicle"), "vehicle"))
            /\ qry.result.totalEnergyDeliveredDc
                 = SumDc(InWindow(HistoryAt(n, "vehicle"), "vehicle"))
            /\ qry.result.totalEnergyConsumedAc
                 = SumAc(InWindow(HistoryAt(n, "meter"), "meter"))

ClassifyReported(ratio, dataPoints) ==
    IF dataPoints < MinDataPoints THEN "INSUFFICIENT_DATA"
    ELSE IF ratio >= 9000 THEN "EXCELLENT"
    ELSE IF ratio >= 8500 THEN "NORMAL"
    ELSE IF ratio >= 7500 THEN "WARNING"
    ELSE "CRITICAL"

\* C29 -- rounding and classification agree: the healthStatus of every Summary
\* is the band of the efficiencyRatio that the same Summary reports (the ratio
\* rounded to 4 decimals), with its dataPointsAnalyzed.
StatusMatchesReportedRatio ==
    SummaryReturned =>
        qry.result.healthStatus
          = ClassifyReported(qry.result.efficiencyRatio, qry.result.dataPointsAnalyzed)

\* the readings of the first generated meter that lie in the window of the call
FirstMeterReadings ==
    {h \in history["meter"] :
        /\ h.meterId = GenMeterId(1)
        /\ qry.now - DayMs <= h.timestamp /\ h.timestamp <= qry.now}

\* C30 -- quick-start outcome: after the generator's run the Summary of
\* "VEHICLE-001" has a strictly positive totalEnergyConsumedAc (the AC energy
\* of the generated meter readings), an efficiencyRatio that is not 0, and,
\* with 10 readings or more, the healthStatus of the ratio of the generated
\* energies, which lies between 0.77 and 0.93 (WARNING, NORMAL or EXCELLENT).
QuickstartSummaryHasAcEnergy ==
    (SummaryReturned /\ qry.vehicleId = GenVehicleId(1)) =>
        /\ qry.result.totalEnergyConsumedAc > 0
        /\ qry.result.totalEnergyConsumedAc = SumAc(FirstMeterReadings)
        /\ qry.result.efficiencyRatio # 0
        /\ qry.result.dataPointsAnalyzed >= MinDataPoints =>
              qry.result.healthStatus \in {"WARNING", "NORMAL", "EXCELLENT"}

\* The write statements a call has sent, for a call no step of which failed:
\* one upsert per record the loop has passed, and the insert once the call
\* stands at its commit or has committed
StatementsSent(p) ==
    (call[p].i - 1)
      + (IF call[p].pc = "commit" \/ CommitsOf(p) # {} THEN 1 ELSE 0)

\* C31 -- two write operations per batch: a batch call of N >= 1 records that
\* returned success has sent exactly two write statements to the store, one
\* upsert of all N Current-State rows and one insert of all N History rows,
\* whatever N is.
BatchTakesTwoStatements ==
    (/\ call["h1"].pc = "done"
     /\ call["h1"].result = "success"
     /\ BatchCall("h1")) =>
        StatementsSent("h1") = 2

\* what the batch endpoints answer after the service method returned:
\* { success: true, message, count: data.length }
BatchResponse(p) == [success |-> TRUE, count |-> Len(call[p].data)]

\* a batch call with an empty array
EmptyBatchCall(p) == call[p].op \in {"meterBatch", "vehicleBatch"} /\ Len(call[p].data) = 0

\* a call with an empty array has returned at once: no connection, no
\* transaction, no statement, no error, and the answer counts 0 records
EmptyBatchReturned ==
    EmptyBatchCall("h1") =>
        /\ call["h1"].pc = "done"
        /\ call["h1"].result = "success"
        /\ BatchResponse("h1") = [success |-> TRUE, count |-> 0]
        /\ ~call["h1"].conn
        /\ call["h1"].released = 0
        /\ StatementsSent("h1") = 0
        /\ call["h1"].failedAt = "none"
        /\ ~call["h1"].rolledBack
        /\ CommitsOf("h1") = {}
        /\ currentStatus = snap["h1"].currentStatus
        /\ history = snap["h1"].history

\* C32 -- empty batch is a no-op: ingestMeterBatch([]) and
\* ingestVehicleBatch([]) return normally in the step that starts them; that
\* step takes no connection and changes no table, sequence or commit record,
\* the call never begins a transaction, and the caller gets a success
\* confirmation with count 0.
EmptyBatchIsNoOp ==
    /\ []EmptyBatchReturned
    /\ [][(EmptyBatchCall("h1")' /\ call'["h1"].cid # call["h1"].cid) =>
            UNCHANGED <<currentStatus, history, historySeq, inUse, commitLog,
                        createdAt>>]_vars

\* C32 witness: an empty vehicle batch returned success on top of a committed
\* call; the tables are those the earlier call left
EmptyBatchAfterCommit ==
    /\ call["h1"].pc = "done"
    /\ call["h1"].op = "vehicleBatch"
    /\ call["h1"].data = << >>
    /\ call["h1"].result = "success"
    /\ BatchResponse("h1").count = 0
    /\ Len(commitLog) = 1
    /\ history = snap["h1"].history
    /\ history["vehicle"] \cup history["meter"] # {}
    /\ inUse = 0

====
